---- MODULE Spec2Model ----
(***************************************************************************)
(* A model of pdf-tools (pdfcli): the selection parser, file discovery     *)
(* with natural sort, the Ghostscript compression operation and the        *)
(* interactive menu loop.                                                  *)
(*                                                                         *)
(* Strings are modelled as sequences of one-character strings, so that     *)
(* splitting, stripping and integer parsing are computed, not assumed.     *)
(***************************************************************************)
EXTENDS Integers, Sequences, FiniteSets, TLC

(***************************************************************************)
(* Bounds of the model.                                                    *)
(***************************************************************************)
\* longest selection string typed at the prompt
MaxLen == 5
\* largest number of listed files handed to the parser as max_num
MaxCount == 3
\* compress_pdf invocations in one behaviour
MaxCalls == 2
\* largest file size, in bytes
MaxSize == 2
\* longest file stem in a listed directory
MaxStemLen == 2
\* most menu choices read in a session
MaxTurns == 2
\* longest name handed to sanitize_filename
MaxNameLen == 3
\* the pages of the longest document, which needs a fourth digit in its
\* page numbers; it is converted into an empty output directory only, and no
\* call follows it
ManyPages == 1000

(***************************************************************************)
(* Characters and strings.                                                 *)
(***************************************************************************)
Digits == {"0", "1", "2", "3"}

\* the characters a selection string is made of: digits, the range hyphen,
\* a blank and a letter
SelChars == Digits \cup {"-", " ", "x"}

Whitespace == {" "}

DigitVal(c) ==
    CASE c = "0" -> 0
      [] c = "1" -> 1
      [] c = "2" -> 2
      [] c = "3" -> 3
      [] c = "4" -> 4
      [] c = "5" -> 5
      [] c = "6" -> 6
      [] c = "7" -> 7
      [] c = "8" -> 8
      [] c = "9" -> 9

RECURSIVE StringsUpTo(_, _)
\* every string over the characters cs of length at most n
StringsUpTo(cs, n) ==
    IF n = 0 THEN {<<>>}
    ELSE LET shorter == StringsUpTo(cs, n - 1)
         IN  shorter \cup {Append(s, c) : s \in shorter, c \in cs}

RECURSIVE SplitWsAcc(_, _, _)
SplitWsAcc(s, cur, acc) ==
    IF s = <<>>
    THEN IF cur = <<>> THEN acc ELSE Append(acc, cur)
    ELSE IF Head(s) \in Whitespace
         THEN SplitWsAcc(Tail(s), <<>>, IF cur = <<>> THEN acc ELSE Append(acc, cur))
         ELSE SplitWsAcc(Tail(s), Append(cur, Head(s)), acc)

\* str.split(): the maximal runs of non-whitespace characters, in order
str_split(s) == SplitWsAcc(s, <<>>, <<>>)

RECURSIVE SplitSepAcc(_, _, _, _)
SplitSepAcc(s, sep, cur, acc) ==
    IF s = <<>>
    THEN Append(acc, cur)
    ELSE IF Head(s) = sep
         THEN SplitSepAcc(Tail(s), sep, <<>>, Append(acc, cur))
         ELSE SplitSepAcc(Tail(s), sep, Append(cur, Head(s)), acc)

\* str.split(sep): the pieces between separators, empty pieces kept
str_split_sep(s, sep) == SplitSepAcc(s, sep, <<>>, <<>>)

\* sep in s
str_contains(s, sep) == \E i \in 1..Len(s) : s[i] = sep

RECURSIVE DecimalValue(_)
DecimalValue(s) ==
    IF s = <<>> THEN 0
    ELSE 10 * DecimalValue(SubSeq(s, 1, Len(s) - 1)) + DigitVal(s[Len(s)])

\* int(s) on a piece of a token (no whitespace, no hyphen inside): a value
\* for a non-empty run of digits, ValueError for anything else
py_int(s) ==
    IF s # <<>> /\ \A i \in 1..Len(s) : s[i] \in Digits
    THEN [ok |-> TRUE, val |-> DecimalValue(s)]
    ELSE [ok |-> FALSE, val |-> 0]

RECURSIVE py_range(_, _, _)
\* list(range(start, stop, step))
py_range(start, stop, step) ==
    IF (step > 0 /\ start >= stop) \/ (step < 0 /\ start <= stop)
    THEN <<>>
    ELSE <<start>> \o py_range(start + step, stop, step)

(***************************************************************************)
(* _parse_number_selection (cli/prompts.py).                               *)
(*                                                                         *)
(* A _ParseError message is the format string that built it together with  *)
(* the values interpolated into it: token is the text of {part}, num the   *)
(* value of {num}, and lo..hi the range the text spells out ("1" is        *)
(* literal in the format, hi is {max_num}).                                *)
(***************************************************************************)
NoToken == <<>>
NoNum == -1

\* "Неверный формат диапазона. Используйте: 1-5"
MsgRangeFormat ==
    [fmt |-> "range_format", token |-> NoToken, num |-> NoNum, lo |-> NoNum, hi |-> NoNum]

\* "Диапазон должен содержать числа: 1-5"
MsgRangeNotNumbers ==
    [fmt |-> "range_not_numbers", token |-> NoToken, num |-> NoNum, lo |-> NoNum, hi |-> NoNum]

\* f"Номера должны быть от 1 до {max_num}."
MsgRangeBounds(max_num) ==
    [fmt |-> "range_bounds", token |-> NoToken, num |-> NoNum, lo |-> 1, hi |-> max_num]

\* f"'{part}' — не число."
MsgNotANumber(part) ==
    [fmt |-> "not_a_number", token |-> part, num |-> NoNum, lo |-> NoNum, hi |-> NoNum]

\* f"Номер {num} вне диапазона (1-{max_num})."
MsgNumberBounds(num, max_num) ==
    [fmt |-> "number_bounds", token |-> NoToken, num |-> num, lo |-> 1, hi |-> max_num]

NoMsg ==
    [fmt |-> "none", token |-> NoToken, num |-> NoNum, lo |-> NoNum, hi |-> NoNum]

Returned(indices) == [tag |-> "ok", indices |-> indices, msg |-> NoMsg]
Raised(msg) == [tag |-> "error", indices |-> <<>>, msg |-> msg]
NotCalled == [tag |-> "pending", indices |-> <<>>, msg |-> NoMsg]

\* a plausible slip: the descending run stops one short of its endpoint
RangeIndicesShort(start, end) ==
    IF start > end
    THEN py_range(start - 1, end - 1, -1)
    ELSE py_range(start - 1, end, 1)

\* the indices of a validated range start-end
RangeIndices(start, end) ==
    IF start > end
    THEN py_range(start - 1, end - 2, -1)
    ELSE py_range(start - 1, end, 1)

\* a plausible slip: the upper bound of the range's end is not checked
RangeOutOfBoundsNoEndMax(start, end, max_num) ==
    start < 1 \/ end < 1 \/ start > max_num

\* start < 1 or end < 1 or start > max_num or end > max_num
RangeOutOfBounds(start, end, max_num) ==
    start < 1 \/ end < 1 \/ start > max_num \/ end > max_num

\* a plausible slip: the lower bound is not checked, so 0 passes
NumberOutOfBoundsNoMin(num, max_num) == num > max_num

\* num < 1 or num > max_num
NumberOutOfBounds(num, max_num) == num < 1 \/ num > max_num

\* the outcome of one token: the indices it adds, or the error it raises
ParsePart(part, max_num) ==
    IF str_contains(part, "-")
    THEN LET range_parts == str_split_sep(part, "-")
         IN  IF Len(range_parts) # 2
             THEN Raised(MsgRangeFormat)
             ELSE LET start == py_int(range_parts[1])
                      end == py_int(range_parts[2])
                  IN  IF ~start.ok \/ ~end.ok
                      THEN Raised(MsgRangeNotNumbers)
                      ELSE IF RangeOutOfBounds(start.val, end.val, max_num)
                           THEN Raised(MsgRangeBounds(max_num))
                           ELSE Returned(RangeIndices(start.val, end.val))
    ELSE LET num == py_int(part)
         IN  IF ~num.ok
             THEN Raised(MsgNotANumber(part))
             ELSE IF NumberOutOfBounds(num.val, max_num)
                  THEN Raised(MsgNumberBounds(num.val, max_num))
                  ELSE Returned(<<num.val - 1>>)

RECURSIVE ParseParts(_, _, _)
\* the loop over the tokens: the first error ends it
ParseParts(parts, max_num, indices) ==
    IF parts = <<>>
    THEN Returned(indices)
    ELSE LET one == ParsePart(Head(parts), max_num)
         IN  IF one.tag = "error"
             THEN one
             ELSE ParseParts(Tail(parts), max_num, indices \o one.indices)

_parse_number_selection(raw, max_num) == ParseParts(str_split(raw), max_num, <<>>)

(***************************************************************************)
(* sanitize_filename (utils/naming.py).                                    *)
(***************************************************************************)
UnsafeChars == {"<", ">", ":", "\"", "/", "\\", "|", "?", "*"}

RECURSIVE LStrip(_, _)
LStrip(s, cs) == IF s # <<>> /\ Head(s) \in cs THEN LStrip(Tail(s), cs) ELSE s

RECURSIVE RStrip(_, _)
RStrip(s, cs) ==
    IF s # <<>> /\ s[Len(s)] \in cs THEN RStrip(SubSeq(s, 1, Len(s) - 1), cs) ELSE s

\* str.strip(): leading and trailing whitespace removed
py_strip(s) == RStrip(LStrip(s, Whitespace), Whitespace)

\* str.strip(chars)
py_strip_chars(s, cs) == RStrip(LStrip(s, cs), cs)

\* re.sub(r'[<>:"/\\|?*]', '_', name)
ReplaceUnsafe(name) == [i \in 1..Len(name) |-> IF name[i] \in UnsafeChars THEN "_" ELSE name[i]]

RECURSIVE CollapseRuns(_, _)
\* re.sub(r'[_\s]+', '_', s): inRun says the previous character was replaced
CollapseRuns(s, inRun) ==
    IF s = <<>> THEN <<>>
    ELSE IF Head(s) \in ({"_"} \cup Whitespace)
         THEN (IF inRun THEN <<>> ELSE <<"_">>) \o CollapseRuns(Tail(s), TRUE)
         ELSE <<Head(s)>> \o CollapseRuns(Tail(s), FALSE)

Unnamed == <<"u", "n", "n", "a", "m", "e", "d">>

\* a plausible slip: the dots are stripped before the whitespace
SanitizeDotsFirst(name) ==
    LET safe == CollapseRuns(py_strip(py_strip_chars(ReplaceUnsafe(name), {"."})), FALSE)
    IN  IF safe = <<>> THEN Unnamed ELSE safe

\* sanitize_filename(name)
sanitize_filename(name) ==
    LET safe == CollapseRuns(py_strip_chars(py_strip(ReplaceUnsafe(name)), {"."}), FALSE)
    IN  IF safe = <<>> THEN Unnamed ELSE safe

(***************************************************************************)
(* Ghostscript service (services/ghostscript.py).                          *)
(***************************************************************************)
GS_BINARIES == <<"gs", "gswin64c", "gswin32c">>

NoBinary == "None"

RECURSIVE FirstOnPath(_, _)
FirstOnPath(binaries, on_path) ==
    IF binaries = <<>> THEN NoBinary
    ELSE IF Head(binaries) \in on_path THEN Head(binaries)
         ELSE FirstOnPath(Tail(binaries), on_path)

\* the first of GS_BINARIES that shutil.which finds, or None
find_ghostscript(on_path) == FirstOnPath(GS_BINARIES, on_path)

is_ghostscript_available(on_path) == find_ghostscript(on_path) # NoBinary

Presets == {"screen", "ebook", "printer", "prepress"}

(***************************************************************************)
(* Errors (core/errors.py) and their messages.  A message is the format    *)
(* string that built it with the values interpolated into it.              *)
(***************************************************************************)
NoCode == 0
NoText == <<>>
NoPath == <<>>

OpMsg(fmt, code, diag, path) == [fmt |-> fmt, code |-> code, diag |-> diag, path |-> path]

NoOpMsg == OpMsg("none", NoCode, NoText, NoPath)

\* f"Файл не найден: {source_pdf}"
MsgFileNotFound(path) == OpMsg("file_not_found", NoCode, NoText, path)

\* get_ghostscript_install_hint()
MsgInstallHint == OpMsg("gs_install_hint", NoCode, NoText, NoPath)

\* f"Ghostscript завершился с ошибкой (код {result.returncode}):\n{error_msg}"
MsgGsFailed(returncode, error_msg) == OpMsg("gs_failed", returncode, error_msg, NoPath)

\* f"Ошибка запуска Ghostscript: {e}"
MsgGsLaunch == OpMsg("gs_launch_error", NoCode, NoText, NoPath)

\* "Ghostscript не создал выходной файл.\nВозможно, входной PDF повреждён или защищён."
MsgGsNoOutput == OpMsg("gs_no_output", NoCode, NoText, NoPath)

\* the text of an exception the program did not build itself
MsgForeign == OpMsg("foreign", NoCode, NoText, NoPath)

\* PDFToolsError and its subclasses
PDFToolsErrors == {"PDFToolsError", "UserError", "ToolNotFoundError", "OperationError", "NoFilesError"}

(***************************************************************************)
(* OperationResult (core/models.py) and the outcome of a call.             *)
(***************************************************************************)
NoStats == [form |-> "none", original |-> 0, new |-> 0, reduction |-> <<0, 1>>, preset |-> "none"]

NoResult == [success |-> FALSE, message |-> NoStats, output_path |-> NoPath, files_count |-> 0]

OperationResult(success, message, output_path, files_count) ==
    [success |-> success, message |-> message,
     output_path |-> output_path, files_count |-> files_count]

Return(result) == [tag |-> "return", exc |-> "none", emsg |-> NoOpMsg, result |-> result]
Raise(exc, emsg) == [tag |-> "raise", exc |-> exc, emsg |-> emsg, result |-> NoResult]
NoOutcome == [tag |-> "none", exc |-> "none", emsg |-> NoOpMsg, result |-> NoResult]

(***************************************************************************)
(* The external tool as the program sees it: whether the process could be  *)
(* started and, if it ran, its exit code, its two output streams and the   *)
(* size of the output file it wrote (NotWritten: it wrote none).           *)
(***************************************************************************)
Absent == -1
NotWritten == -1

ExitCodes == {0, 1, 2}
\* the texts the tool is tried with on stderr and on stdout: nothing, a
\* blank, and a word between blanks
StderrTexts == {<<>>, <<" ">>, <<" ", "e", "r", " ">>}
StdoutTexts == {<<>>, <<" ">>, <<" ", "o", " ">>}
LaunchFailures == {"FileNotFoundError", "PermissionError", "SubprocessError"}

ToolRun(launch, returncode, stderr, stdout, wrote) ==
    [launch |-> launch, returncode |-> returncode,
     stderr |-> stderr, stdout |-> stdout, wrote |-> wrote]

NoTool == ToolRun("none", 0, <<>>, <<>>, NotWritten)

\* what the process can do once started; the streams of a run that exits 0
\* are never read by the program and are left empty
ToolOutcomes ==
    {ToolRun(l, 0, <<>>, <<>>, NotWritten) : l \in LaunchFailures}
    \cup {ToolRun("ran", 0, <<>>, <<>>, w) : w \in {NotWritten} \cup (0..MaxSize)}
    \cup {ToolRun("ran", rc, e, o, w) :
            rc \in ExitCodes \ {0},
            e \in StderrTexts,
            o \in StdoutTexts,
            w \in {NotWritten} \cup (0..MaxSize)}

\* the literal "Unknown error", a text no stream equals
UnknownError == <<"Unknown error">>

\* a plausible slip: stdout is preferred to stderr
ErrorTextStdoutFirst(stderr, stdout) ==
    IF py_strip(stdout) # <<>> THEN py_strip(stdout)
    ELSE IF py_strip(stderr) # <<>> THEN py_strip(stderr)
    ELSE UnknownError

\* result.stderr.strip() or result.stdout.strip() or "Unknown error"
ErrorText(stderr, stdout) ==
    IF py_strip(stderr) # <<>> THEN py_strip(stderr)
    ELSE IF py_strip(stdout) # <<>> THEN py_strip(stdout)
    ELSE UnknownError

\* run_ghostscript: returns (tag "return") or raises
run_ghostscript(gs_binary, tool) ==
    IF gs_binary = NoBinary
    THEN Raise("ToolNotFoundError", MsgInstallHint)
    ELSE CASE tool.launch = "FileNotFoundError" -> Raise("ToolNotFoundError", MsgInstallHint)
           [] tool.launch = "SubprocessError" -> Raise("OperationError", MsgGsLaunch)
           [] tool.launch = "PermissionError" -> Raise("PermissionError", MsgForeign)
           [] tool.launch = "ran" ->
                IF tool.returncode # 0
                THEN Raise("OperationError",
                           MsgGsFailed(tool.returncode, ErrorText(tool.stderr, tool.stdout)))
                ELSE Return(NoResult)

(***************************************************************************)
(* compress_pdf (ops/compress_pdf.py).                                     *)
(*                                                                         *)
(* A directory is a function from the names of its files to their sizes.   *)
(***************************************************************************)
EmptyDir == <<>>

FileExists(dir, name) == name \in DOMAIN dir

WriteFile(dir, name, size) ==
    [n \in (DOMAIN dir) \cup {name} |-> IF n = name THEN size ELSE dir[n]]

PresetText(preset) ==
    CASE preset = "screen" -> <<"s", "c", "r", "e", "e", "n">>
      [] preset = "ebook" -> <<"e", "b", "o", "o", "k">>
      [] preset = "printer" -> <<"p", "r", "i", "n", "t", "e", "r">>
      [] preset = "prepress" -> <<"p", "r", "e", "p", "r", "e", "s", "s">>

\* f"{safe_stem}_compressed_{preset}.pdf"
CompressOutputName(stem, preset) ==
    sanitize_filename(stem)
        \o <<"_", "c", "o", "m", "p", "r", "e", "s", "s", "e", "d", "_">>
        \o PresetText(preset) \o <<".", "p", "d", "f">>

\* the output directory once the tool has run: the file it wrote, if any
AfterTool(out_files, output_name, gs_binary, tool) ==
    IF gs_binary # NoBinary /\ tool.launch = "ran" /\ tool.wrote # NotWritten
    THEN WriteFile(out_files, output_name, tool.wrote)
    ELSE out_files

\* ((original_size - new_size) / original_size) * 100 if original_size > 0 else 0,
\* kept as an exact fraction
Reduction(original_size, new_size) ==
    IF original_size > 0 THEN <<(original_size - new_size) * 100, original_size>> ELSE <<0, 1>>

\* a plausible slip: an output of equal size is reported as a saving
CompressStatsStrict(original_size, new_size, preset) ==
    [form |-> IF new_size > original_size THEN "no_decrease" ELSE "savings",
     original |-> original_size, new |-> new_size,
     reduction |-> Reduction(original_size, new_size), preset |-> preset]

\* the two messages of a finished compression
CompressStats(original_size, new_size, preset) ==
    [form |-> IF new_size >= original_size THEN "no_decrease" ELSE "savings",
     original |-> original_size, new |-> new_size,
     reduction |-> Reduction(original_size, new_size), preset |-> preset]

\* compress_pdf(options), given what it reads from its environment: the size
\* of the source (Absent: no such file), the binary the locator finds, what
\* the tool does, and the files of the output directory.  The value is the
\* outcome of the call and the output directory it leaves.
compress_pdf(source_stem, preset, src_size, gs_binary, tool, out_files) ==
    IF src_size = Absent
    THEN [res |-> Raise("OperationError", MsgFileNotFound(source_stem)), out |-> out_files]
    ELSE LET output_name == CompressOutputName(source_stem, preset)
             ran == run_ghostscript(gs_binary, tool)
             after == AfterTool(out_files, output_name, gs_binary, tool)
         IN  IF ran.tag = "raise"
             THEN [res |-> ran, out |-> after]
             ELSE IF ~FileExists(after, output_name)
                  THEN [res |-> Raise("OperationError", MsgGsNoOutput), out |-> after]
                  ELSE [res |-> Return(OperationResult(TRUE,
                                    CompressStats(src_size, after[output_name], preset),
                                    output_name, 1)),
                        out |-> after]

(***************************************************************************)
(* File discovery (core/files.py).                                         *)
(*                                                                         *)
(* A file is its stem and its suffix; a directory is the sequence of its   *)
(* files in the order iterdir() yields them.                               *)
(***************************************************************************)
\* the code point of a character, for the comparison of text
CharCode(c) ==
    CASE c = " " -> 32
      [] c = "-" -> 45
      [] c = "." -> 46
      [] c = "/" -> 47
      [] c = "0" -> 48
      [] c = "1" -> 49
      [] c = "2" -> 50
      [] c = "3" -> 51
      [] c = "4" -> 52
      [] c = "5" -> 53
      [] c = "6" -> 54
      [] c = "7" -> 55
      [] c = "8" -> 56
      [] c = "9" -> 57
      [] c = ":" -> 58
      [] c = "A" -> 65
      [] c = "B" -> 66
      [] c = "_" -> 95
      [] c = "a" -> 97
      [] c = "b" -> 98
      [] c = "e" -> 101
      [] c = "g" -> 103
      [] c = "i" -> 105
      [] c = "j" -> 106
      [] c = "m" -> 109
      [] c = "n" -> 110
      [] c = "p" -> 112
      [] c = "x" -> 120
      [] c = "^2" -> 178

LowerChar(c) ==
    CASE c = "A" -> "a"
      [] c = "B" -> "b"
      [] c = "Y" -> "y"
      [] OTHER -> c

\* str.lower()
py_lower(s) == [i \in 1..Len(s) |-> LowerChar(s[i])]

\* characters that str.isdigit() accepts, that \d does not match and that
\* int() rejects: the digits outside the decimal numbers (superscripts, ...)
\* "^2" stands for the one character SUPERSCRIPT TWO (U+00B2)
OtherDigits == {"^2"}

\* str.isdigit()
py_isdigit(s) == s # <<>> /\ \A i \in 1..Len(s) : s[i] \in Digits \cup OtherDigits

RECURSIVE SplitDigitsAcc(_, _, _, _)
\* cur is the run being read, inDigits says whether it is a run of digits
SplitDigitsAcc(s, cur, inDigits, acc) ==
    IF s = <<>>
    THEN IF inDigits THEN Append(Append(acc, cur), <<>>) ELSE Append(acc, cur)
    ELSE IF (Head(s) \in Digits) = inDigits
         THEN SplitDigitsAcc(Tail(s), Append(cur, Head(s)), inDigits, acc)
         ELSE SplitDigitsAcc(Tail(s), <<Head(s)>>, ~inDigits, Append(acc, cur))

\* re.split(r'(\d+)', text): text, digits, text, ..., text; the text pieces
\* at both ends and between the runs are there even when empty
re_split_digits(text) == SplitDigitsAcc(text, <<>>, FALSE, <<>>)

\* an element of a key: an int or a str
KeyInt(n) == [isint |-> TRUE, n |-> n, s |-> <<>>]
KeyStr(s) == [isint |-> FALSE, n |-> 0, s |-> s]

\* what the key function gives: a key, or the ValueError of int(part)
Key(parts) == [ok |-> TRUE, parts |-> parts]
KeyValueError == [ok |-> FALSE, parts |-> <<>>]

\* [int(part) if part.isdigit() else part for part in parts]
KeyOfParts(parts) ==
    IF \E i \in 1..Len(parts) : py_isdigit(parts[i]) /\ ~py_int(parts[i]).ok
    THEN KeyValueError
    ELSE Key([i \in 1..Len(parts) |->
                 IF py_isdigit(parts[i]) THEN KeyInt(py_int(parts[i]).val)
                 ELSE KeyStr(parts[i])])

\* natural_sort_key(path), from the stem of the path
natural_sort_key(stem) == KeyOfParts(re_split_digits(py_lower(stem)))

RECURSIVE StrLess(_, _)
\* a < b for two str: by code point, a proper prefix first
StrLess(a, b) ==
    IF b = <<>> THEN FALSE
    ELSE IF a = <<>> THEN TRUE
    ELSE IF Head(a) # Head(b) THEN CharCode(Head(a)) < CharCode(Head(b))
    ELSE StrLess(Tail(a), Tail(b))

RECURSIVE ListLess(_, _)
\* k1 < k2 for two lists: the first pair of unequal elements decides, and
\* comparing an int with a str there raises TypeError
ListLess(k1, k2) ==
    IF k2 = <<>> THEN "false"
    ELSE IF k1 = <<>> THEN "true"
    ELSE IF Head(k1) = Head(k2) THEN ListLess(Tail(k1), Tail(k2))
    ELSE IF Head(k1).isint # Head(k2).isint THEN "TypeError"
    ELSE IF Head(k1).isint
         THEN (IF Head(k1).n < Head(k2).n THEN "true" ELSE "false")
         ELSE (IF StrLess(Head(k1).s, Head(k2).s) THEN "true" ELSE "false")

\* a file of a directory
File(stem, suffix) == [stem |-> stem, suffix |-> suffix]

Listed(files) == [tag |-> "return", exc |-> "none", files |-> files]
ListRaised(exc) == [tag |-> "raise", exc |-> exc, files |-> <<>>]
NotListed == [tag |-> "none", exc |-> "none", files |-> <<>>]

RECURSIVE InsertByKey(_, _, _)
\* f put into the sorted list, behind every element it is not less than
InsertByKey(sorted, f, at) ==
    IF at = 0
    THEN Listed(<<f>> \o sorted)
    ELSE LET less == ListLess(natural_sort_key(f.stem).parts,
                              natural_sort_key(sorted[at].stem).parts)
         IN  IF less = "TypeError" THEN ListRaised("TypeError")
             ELSE IF less = "true" THEN InsertByKey(sorted, f, at - 1)
             ELSE Listed(SubSeq(sorted, 1, at) \o <<f>> \o SubSeq(sorted, at + 1, Len(sorted)))

RECURSIVE SortedByKey(_, _)
\* the comparisons of sorted(): a stable sort, so files with equal keys keep
\* the order they came in
SortedByKey(files, done) ==
    IF files = <<>> THEN Listed(done)
    ELSE LET next == InsertByKey(done, Head(files), Len(done))
         IN  IF next.tag = "raise" THEN next
             ELSE SortedByKey(Tail(files), next.files)

\* sorted(files, key=natural_sort_key): the key of every file is computed
\* before the first comparison
py_sorted(files) ==
    IF \E i \in 1..Len(files) : ~natural_sort_key(files[i].stem).ok
    THEN ListRaised("ValueError")
    ELSE SortedByKey(files, <<>>)

\* IMAGE_EXTENSIONS and PDF_EXTENSION (core/config.py)
IMAGE_EXTENSIONS == {<<".", "p", "n", "g">>, <<".", "j", "p", "g">>,
                     <<".", "j", "p", "e", "g">>, <<".", "w", "e", "b", "p">>,
                     <<".", "t", "i", "f">>, <<".", "t", "i", "f", "f">>}
PDF_EXTENSION == <<".", "p", "d", "f">>

\* the suffixes of the files in the model, lower-cased by f.suffix.lower()
SuffixLower(suffix) ==
    CASE suffix = <<".", "P", "N", "G">> -> <<".", "p", "n", "g">>
      [] suffix = <<".", "J", "P", "G">> -> <<".", "j", "p", "g">>
      [] suffix = <<".", "P", "D", "F">> -> <<".", "p", "d", "f">>
      [] OTHER -> suffix

\* the filter_fn of list_images and of list_pdfs, as the set of lower-cased
\* suffixes it lets through
IsImage == IMAGE_EXTENSIONS
IsPdf == {PDF_EXTENSION}

\* _list_files(directory, filter_fn): entries is directory.iterdir(), every
\* entry a regular file
list_files(exists, entries, filter_fn) ==
    IF ~exists THEN Listed(<<>>)
    ELSE py_sorted(SelectSeq(entries, LAMBDA f : SuffixLower(f.suffix) \in filter_fn))

list_images(exists, entries) == list_files(exists, entries, IsImage)
list_pdfs(exists, entries) == list_files(exists, entries, IsPdf)

(***************************************************************************)
(* Naming (utils/naming.py).                                               *)
(***************************************************************************)
DecimalDigits == <<"0", "1", "2", "3", "4", "5", "6", "7", "8", "9">>

RECURSIVE py_str(_)
\* str(n) for n >= 0
py_str(n) ==
    IF n < 10 THEN <<DecimalDigits[n + 1]>>
    ELSE Append(py_str(n \div 10), DecimalDigits[(n % 10) + 1])

RECURSIVE py_zfill(_, _)
\* s.zfill(width) for a string of digits
py_zfill(s, width) == IF Len(s) >= width THEN s ELSE py_zfill(<<"0">> \o s, width)

\* generate_output_name(stem, suffix, extension)
generate_output_name(stem, suffix, extension) == sanitize_filename(stem) \o suffix \o extension

\* a plausible slip: the page number is not padded
FormatPageNumberUnpadded(page_num, total_pages) == py_str(page_num)

\* format_page_number(page_num, total_pages)
format_page_number(page_num, total_pages) ==
    LET digits == Len(py_str(total_pages))
        width == IF digits > 3 THEN digits ELSE 3
    IN  py_zfill(py_str(page_num), width)

(***************************************************************************)
(* pdf_to_images (ops/pdf_to_images.py).                                   *)
(*                                                                         *)
(* In the output directory a subdirectory is an entry of size Directory    *)
(* and a page file is entered under <subdirectory>/<file name>.            *)
(***************************************************************************)
Directory == -2

\* the size a written page or PDF is entered with, per page
PageSize == 1

\* f"PDF пустой: {source_pdf.name}"
MsgEmptyPdf(name) == OpMsg("empty_pdf", NoCode, NoText, name)

\* f"Не удалось открыть PDF: {source_pdf.name}\n..."
MsgCannotOpen(name) == OpMsg("cannot_open", NoCode, NoText, name)

\* f"Нет прав на запись в {output_dir}.\n..."
MsgNoWritePermission(path) == OpMsg("no_write_permission", NoCode, NoText, path)

\* str(e) of an exception that is not the program's own, by its class
MsgOf(class) == OpMsg(class, NoCode, NoText, NoPath)

\* f"Ошибка при извлечении страниц: {e}", e the message of the exception caught
MsgExtractFailed(e) == OpMsg("extract_failed", NoCode, <<e.fmt>>, e.path)

\* f"Извлечено {saved_count} страниц в формате {output_format.upper()} ({dpi} DPI)."
ExtractStats(saved_count, output_format, dpi) ==
    [form |-> "extracted", count |-> saved_count, format |-> output_format, dpi |-> dpi]

\* what the conversion meets: whether the output directory can be written
\* to, whether the document opens, its pages, and the page (0: none) at
\* which saving fails for another reason than permissions
PdfRun(writable, open, pages, save_error) ==
    [writable |-> writable, open |-> open, pages |-> pages, save_error |-> save_error]

\* extension chosen from output_format
PageExtension(output_format) ==
    IF output_format = "jpg" THEN <<".", "j", "p", "g">> ELSE <<".", "p", "n", "g">>

\* f"page_{page_str}{extension}" under the subdirectory
PagePath(safe_name, page_num, total_pages, output_format) ==
    safe_name \o <<"/">> \o <<"p", "a", "g", "e", "_">>
        \o format_page_number(page_num, total_pages) \o PageExtension(output_format)

\* the output directory with the files of the pages 1..saved written
SavePages(out_files, safe_name, saved, total_pages, output_format) ==
    LET paths == {PagePath(safe_name, i, total_pages, output_format) : i \in 1..saved}
    IN  [n \in (DOMAIN out_files) \cup paths |-> IF n \in paths THEN PageSize ELSE out_files[n]]

\* output_dir.mkdir(exist_ok=True)
Mkdir(out_files, name, writable) ==
    IF FileExists(out_files, name)
    THEN (IF out_files[name] = Directory
          THEN [exc |-> "none", out |-> out_files]
          ELSE [exc |-> "FileExistsError", out |-> out_files])
    ELSE IF writable
         THEN [exc |-> "none", out |-> WriteFile(out_files, name, Directory)]
         ELSE [exc |-> "PermissionError", out |-> out_files]

\* the paths of the pages 1..saved, in the order they are written
SavedPaths(safe_name, saved, total_pages, output_format) ==
    [i \in 1..saved |-> PagePath(safe_name, i, total_pages, output_format)]

\* what a call did: its outcome, the output directory it leaves, the paths
\* it wrote in order, and whether the document it opened is still open
PdfDone(res, out, saved, doc_open) ==
    [res |-> res, out |-> out, saved |-> saved, doc_open |-> doc_open]

\* pdf_to_images(options), given whether the source exists, what the
\* conversion meets and the files of the output directory
pdf_to_images(source_stem, src_exists, dpi, output_format, run, out_files) ==
    LET name == source_stem \o PDF_EXTENSION
        safe_name == sanitize_filename(source_stem)
        made == Mkdir(out_files, safe_name, run.writable)
        total_pages == run.pages
        \* the page whose save raises, 0 when every page is saved
        failing == IF ~run.writable THEN 1 ELSE run.save_error
        saved_count == IF failing \in 1..total_pages THEN failing - 1 ELSE total_pages
        after == SavePages(made.out, safe_name, saved_count, total_pages, output_format)
        saved == SavedPaths(safe_name, saved_count, total_pages, output_format)
    IN  IF ~src_exists
        THEN PdfDone(Raise("OperationError", MsgFileNotFound(name)), out_files, <<>>, FALSE)
        ELSE IF made.exc # "none"
        THEN PdfDone(Raise(made.exc, MsgForeign), made.out, <<>>, FALSE)
        ELSE IF run.open = "FileDataError"
        THEN PdfDone(Raise("OperationError", MsgCannotOpen(name)), made.out, <<>>, FALSE)
        ELSE IF total_pages = 0
        \* doc.close(), then the raise inside the try, caught by its last handler
        THEN PdfDone(Raise("OperationError", MsgExtractFailed(MsgEmptyPdf(name))),
                     made.out, <<>>, FALSE)
        ELSE IF failing \in 1..total_pages
        \* the handlers re-raise without doc.close()
        THEN PdfDone(IF ~run.writable
                     THEN Raise("OperationError", MsgNoWritePermission(safe_name))
                     ELSE Raise("OperationError", MsgExtractFailed(MsgOf("OSError"))),
                     after, saved, TRUE)
        ELSE PdfDone(Return(OperationResult(TRUE,
                                ExtractStats(saved_count, output_format, dpi),
                                safe_name, saved_count)),
                     after, saved, FALSE)

(***************************************************************************)
(* images_to_pdf (ops/images_to_pdf.py).                                   *)
(***************************************************************************)
\* f"В папке input/ не найдено изображений.\n..."
MsgNoImages == OpMsg("no_images", NoCode, NoText, NoPath)

\* f"Нет прав на запись в {output_path}.\n..."
MsgNoWritePermissionFile(path) == OpMsg("no_write_permission_file", NoCode, NoText, path)

\* f"Ошибка при создании PDF: {e}", e the message of the exception caught
MsgCreateFailed(e) == OpMsg("create_failed", NoCode, <<e.fmt>>, e.path)

\* f"Создан PDF из {len(image_paths)} изображений."
CreateStats(count) == [form |-> "created", count |-> count]

\* what Pillow can meet: an image that does not open, a file that cannot
\* be written
ImageRuns == {"ok", "UnidentifiedImageError", "PermissionError"}

\* one run of Pillow: its outcome and, when an image does not open, the
\* number of images opened before it
ImageRun(outcome, opened) == [outcome |-> outcome, opened |-> opened]

\* what images_to_pdf leaves behind: its result, the output directory, the
\* pages of the PDF written, and the in-memory images not closed: those of
\* img.convert("RGB") and those of rgb_image.copy()
ImagesDone(res, out, pages, converted_open, copies_open) ==
    [res |-> res, out |-> out, pages |-> pages,
     converted_open |-> converted_open, copies_open |-> copies_open]

\* a plausible slip: the directory is listed although paths are given
ResolveImagesListedFirst(image_paths, in_exists, in_entries) ==
    LET found == list_images(in_exists, in_entries)
    IN  IF found.tag = "return" /\ found.files # <<>> THEN found ELSE Listed(image_paths)

\* lines 34-37: the paths given, or all images of INPUT_DIR
ResolveImages(image_paths, in_exists, in_entries) ==
    IF image_paths # <<>> THEN Listed(image_paths)
    ELSE list_images(in_exists, in_entries)

\* images_to_pdf(options), given the input directory, what Pillow meets and
\* the files of the output directory
images_to_pdf(image_paths, output_name, in_exists, in_entries, run, out_files) ==
    LET found == ResolveImages(image_paths, in_exists, in_entries)
        output_path == generate_output_name(output_name, <<>>, PDF_EXTENSION)
        count == Len(found.files)
        opened == IF run.opened < count THEN run.opened ELSE count - 1
    IN  IF found.tag = "raise"
        THEN ImagesDone(Raise(found.exc, MsgForeign), out_files, <<>>, 0, 0)
        ELSE IF found.files = <<>>
        THEN ImagesDone(Raise("NoFilesError", MsgNoImages), out_files, <<>>, 0, 0)
        ELSE IF run.outcome = "PermissionError"
        THEN ImagesDone(Raise("OperationError", MsgNoWritePermissionFile(output_path)),
                        out_files, <<>>, count, count)
        ELSE IF run.outcome # "ok"
        THEN ImagesDone(Raise("OperationError", MsgCreateFailed(MsgOf(run.outcome))),
                        out_files, <<>>, opened, opened)
        ELSE ImagesDone(Return(OperationResult(TRUE, CreateStats(count), output_path, count)),
                        WriteFile(out_files, output_path, PageSize * count),
                        found.files, count, 0)

(***************************************************************************)
(* Prompts (cli/prompts.py): what a prompt makes of one line read.  A      *)
(* prompt that loops answers Again for a line it rejects.                  *)
(***************************************************************************)
\* _YES_VALUES, its two Cyrillic letters given by their code points
YES_VALUES == {<<>>, <<"y">>, <<"y", "e", "s">>, <<"u0434">>, <<"u0434", "u0430">>}

\* prompt_confirm(message, default_yes)
prompt_confirm(line, default_yes) ==
    LET raw == py_lower(py_strip(line))
    IN  IF default_yes THEN raw \in YES_VALUES ELSE raw \in (YES_VALUES \ {<<>>})

Answer(value) == [done |-> TRUE, value |-> value]
Again == [done |-> FALSE, value |-> 0]

\* default=None
NoDefault == -1

\* prompt_int(message, default, min_val, max_val) on a line of digits or
\* letters
prompt_int(line, default, min_val, max_val) ==
    LET raw == py_strip(line)
    IN  IF raw = <<>> /\ default # NoDefault THEN Answer(default)
        ELSE IF ~py_int(raw).ok THEN Again
        ELSE IF py_int(raw).val < min_val THEN Again
        ELSE IF py_int(raw).val > max_val THEN Again
        ELSE Answer(py_int(raw).val)

\* prompt_choice(message, choices, default)
prompt_choice(line, choices, default) ==
    LET raw == py_lower(py_strip(line))
    IN  IF raw = <<>> /\ default # <<>> THEN Answer(default)
        ELSE IF raw \in choices THEN Answer(raw)
        ELSE Again

\* prompt_dpi(default=150)
prompt_dpi(line) == prompt_int(line, 150, 72, 600)

\* prompt_image_format(default="png")
prompt_image_format(line) ==
    LET choice == prompt_choice(line, {<<"p", "n", "g">>, <<"j", "p", "g">>}, <<"p", "n", "g">>)
    IN  IF ~choice.done THEN Again
        ELSE Answer(IF choice.value = <<"j", "p", "g">> THEN "jpg" ELSE "png")

\* prompt_compression_preset(default="ebook")
prompt_compression_preset(line) ==
    LET choice == prompt_choice(line, {PresetText(p) : p \in Presets}, PresetText("ebook"))
    IN  IF ~choice.done THEN Again
        ELSE Answer(CASE choice.value = PresetText("screen") -> "screen"
                      [] choice.value = PresetText("printer") -> "printer"
                      [] choice.value = PresetText("prepress") -> "prepress"
                      [] OTHER -> "ebook")

\* prompt_output_name(default="combined")
prompt_output_name(line) ==
    LET raw == py_strip(line)
    IN  IF raw = <<>> THEN Answer(<<"c", "o", "m", "b", "i", "n", "e", "d">>)
        ELSE IF \E i \in 1..Len(raw) : raw[i] \in UnsafeChars THEN Again
        ELSE Answer(raw)

(***************************************************************************)
(* prompt_image_selection (cli/prompts.py): one turn of its input loop,    *)
(* from the line read to the paths offered for confirmation.  A path is    *)
(* the number under which the listing displayed it.                        *)
(***************************************************************************)
\* the listing of n images as displayed: enumerate(images, 1)
DisplayedImages(n) == [i \in 1..n |-> i]

\* list[i]: a negative i counts from the end, IndexError beyond either end
py_getitem(list, i) ==
    IF i \in 0..(Len(list) - 1) THEN [ok |-> TRUE, val |-> list[i + 1]]
    ELSE IF i \in (0 - Len(list))..(0 - 1) THEN [ok |-> TRUE, val |-> list[Len(list) + i + 1]]
    ELSE [ok |-> FALSE, val |-> 0]

Picked(tag, paths) == [tag |-> tag, paths |-> paths]
NotPicked == Picked("none", <<>>)

\* [images[i] for i in selected_indices]
SelectedPaths(images, selected_indices) ==
    IF \E k \in 1..Len(selected_indices) : ~py_getitem(images, selected_indices[k]).ok
    THEN Picked("IndexError", <<>>)
    ELSE Picked("selected",
                [k \in 1..Len(selected_indices) |-> py_getitem(images, selected_indices[k]).val])

\* "Не выбрано ни одного файла."
MsgNothingSelected ==
    [fmt |-> "nothing_selected", token |-> NoToken, num |-> NoNum, lo |-> NoNum, hi |-> NoNum]

\* what a turn of prompt_image_selection ends with, the parser's outcome and
\* the message printed
Turn(parsed, pick, printed) == [parsed |-> parsed, pick |-> pick, printed |-> printed]

\* a plausible slip: a rejected line ends the prompt like a cancel
SelectionRetryCancels(parsed) ==
    Turn(parsed, Picked("cancel", <<>>),
         IF parsed.tag = "error" THEN parsed.msg ELSE MsgNothingSelected)

\* lines 264-273: the parser raised _ParseError or returned no index; the
\* message is printed and the loop reads again
SelectionRetry(parsed) ==
    Turn(parsed, Picked("retry", <<>>),
         IF parsed.tag = "error" THEN parsed.msg ELSE MsgNothingSelected)

\* a plausible slip: "0" is not answered before the parser
PromptImageSelectionParsesZero(images, line) ==
    LET raw == py_strip(line)
        parsed == _parse_number_selection(raw, Len(images))
    IN  IF raw = <<>> \/ raw = <<"*">> THEN Turn(NotCalled, Picked("all", images), NoMsg)
        ELSE IF parsed.tag = "error" \/ parsed.indices = <<>> THEN SelectionRetry(parsed)
        ELSE Turn(parsed, SelectedPaths(images, parsed.indices), NoMsg)

\* the turn for the line read: the parser's outcome (NotCalled when the line
\* is answered before the parser) and what the turn ends with
prompt_image_selection(images, line) ==
    LET raw == py_strip(line)
        parsed == _parse_number_selection(raw, Len(images))
    IN  IF raw = <<>> \/ raw = <<"*">> THEN Turn(NotCalled, Picked("all", images), NoMsg)
        ELSE IF raw = <<"0">> THEN Turn(NotCalled, Picked("cancel", <<>>), NoMsg)
        ELSE IF parsed.tag = "error" \/ parsed.indices = <<>> THEN SelectionRetry(parsed)
        ELSE Turn(parsed, SelectedPaths(images, parsed.indices), NoMsg)

(***************************************************************************)
(* State.                                                                  *)
(***************************************************************************)
VARIABLES
    sel_raw,      \* the selection string handed to _parse_number_selection
    sel_max,      \* its max_num
    sel_out,      \* what the call returned or raised
    sel_pick,     \* what a turn of prompt_image_selection ended with
    output_dir,   \* the files of OUTPUT_DIR, name -> size
    c_call,       \* the last compress_pdf call: arguments, environment, outcome
    c_calls,      \* compress_pdf calls made so far
    l_exists,     \* whether the listed directory exists
    l_dir,        \* its files, in the order iterdir() yields them
    l_which,      \* the lister called: "images" or "pdfs"
    l_out,        \* the listing returned, or the exception raised
    l_again,      \* a second listing of the same files, enumerated in another order
    p_call,       \* the last pdf_to_images call: arguments, environment, what it did
    p_calls,      \* pdf_to_images calls made so far
    p_pages,      \* the page files of the output directory, each with its source
    i_call,       \* the last images_to_pdf call: arguments, environment, what it did
    i_calls,      \* images_to_pdf calls made so far
    n_name,       \* the name handed to sanitize_filename
    n_safe,       \* what it returned
    pc,           \* the prompt the session waits at, "exited" or "crashed"
    turns,        \* menu choices read so far
    input_dir,    \* the files of INPUT_DIR, in the order iterdir() yields them
    m_ctx,        \* the handler running and what has been chosen in it
    m_last,       \* what the last handler printed
    m_exit,       \* how the process ended
    m_read        \* the last read of the session: the prompt, what input() gave, what
                  \* the step did with it

parseVars == <<sel_raw, sel_max, sel_out, sel_pick>>
compressVars == <<output_dir, c_call, c_calls>>
listVars == <<l_exists, l_dir, l_which, l_out, l_again>>
pdfVars == <<p_call, p_calls, p_pages>>
imagesVars == <<i_call, i_calls>>
nameVars == <<n_name, n_safe>>
sessionVars == <<pc, turns, input_dir, m_ctx, m_last, m_exit, m_read>>
vars == <<sel_raw, sel_max, sel_out, sel_pick, output_dir, c_call, c_calls,
          l_exists, l_dir, l_which, l_out, l_again, p_call, p_calls, p_pages,
          i_call, i_calls, n_name, n_safe, pc, turns, input_dir, m_ctx, m_last, m_exit, m_read>>

NoCall ==
    [called |-> FALSE, source |-> NoPath, preset |-> "none", src_size |-> Absent,
     gs_binary |-> NoBinary, tool |-> NoTool, res |-> NoOutcome]

ParseIdle == sel_raw = <<>> /\ sel_max = 0 /\ sel_out = NotCalled /\ sel_pick = NotPicked
CompressIdle == output_dir = EmptyDir /\ c_call = NoCall /\ c_calls = 0
ListIdle ==
    /\ l_exists = FALSE /\ l_dir = <<>> /\ l_which = "none"
    /\ l_out = NotListed /\ l_again = NotListed

\* the handler running: its operation, the listing it displayed, and what
\* has been chosen so far
NoCtx ==
    [op |-> "none", listing |-> <<>>, images |-> <<>>, pdf |-> File(<<>>, <<>>),
     dpi |-> 0, on_path |-> {}]

\* what the last handler printed before it returned to the menu
Shown(what, exc, fmt) == [what |-> what, exc |-> exc, fmt |-> fmt]
NothingShown == Shown("none", "none", "none")

\* how the process ended
Ended(how, exc) == [how |-> how, exc |-> exc]
Running == Ended("running", "none")

NoPdfCall ==
    [called |-> FALSE, source |-> NoPath, format |-> "none", src_exists |-> FALSE,
     run |-> PdfRun(TRUE, "ok", 0, 0), before |-> EmptyDir,
     res |-> NoOutcome, saved |-> <<>>, doc_open |-> FALSE]

PdfIdle == p_call = NoPdfCall /\ p_calls = 0 /\ p_pages = {}

NoImagesCall ==
    [called |-> FALSE, given |-> <<>>, name |-> <<>>, exists |-> FALSE, dir |-> <<>>,
     run |-> ImageRun("ok", 0), before |-> EmptyDir, res |-> NoOutcome, pages |-> <<>>,
     converted_open |-> 0, copies_open |-> 0]

ImagesIdle == i_call = NoImagesCall /\ i_calls = 0

NotSanitized == <<"pending">>

NameIdle == n_name = <<>> /\ n_safe = NotSanitized

\* a read of input(): the prompt it stood at, the line it returned or the
\* exception it raised, the turn of prompt_image_selection on the line (at
\* that prompt) and whether a conversion was called before the next read
Read(prompt, got, line, turn, invoked) ==
    [prompt |-> prompt, got |-> got, line |-> line, parsed |-> turn.parsed,
     printed |-> turn.printed, invoked |-> invoked]

NoTurn == Turn(NotCalled, NotPicked, NoMsg)

NothingRead == Read("none", "none", <<>>, NoTurn, FALSE)

SessionIdle ==
    /\ pc = "off" /\ turns = 0 /\ input_dir = <<>>
    /\ m_ctx = NoCtx /\ m_last = NothingShown /\ m_exit = Running
    /\ m_read = NothingRead


(***************************************************************************)
(* SpecParse: _parse_number_selection called on every bounded input,       *)
(* directly or by a turn of prompt_image_selection with sel_max images     *)
(* displayed.                                                              *)
(***************************************************************************)
InitParse ==
    /\ sel_raw \in StringsUpTo(SelChars, MaxLen)
    /\ sel_max \in 1..MaxCount
    /\ sel_out = NotCalled
    /\ sel_pick = NotPicked
    /\ CompressIdle
    /\ ListIdle
    /\ PdfIdle
    /\ ImagesIdle
    /\ NameIdle
    /\ SessionIdle

CallParse ==
    /\ sel_out.tag = "pending"
    /\ sel_pick.tag = "none"
    /\ sel_out' = _parse_number_selection(sel_raw, sel_max)
    /\ UNCHANGED <<sel_raw, sel_max, sel_pick>>
    /\ UNCHANGED <<compressVars, listVars, pdfVars, imagesVars, nameVars, sessionVars>>

SelectImages ==
    /\ sel_out.tag = "pending"
    /\ sel_pick.tag = "none"
    /\ LET turn == prompt_image_selection(DisplayedImages(sel_max), sel_raw)
       IN  /\ sel_out' = turn.parsed
           /\ sel_pick' = turn.pick
    /\ UNCHANGED <<sel_raw, sel_max>>
    /\ UNCHANGED <<compressVars, listVars, pdfVars, imagesVars, nameVars, sessionVars>>

NextParse == CallParse \/ SelectImages

SpecParse == InitParse /\ [][NextParse]_vars

(***************************************************************************)
(* SpecCompress: a sequence of compress_pdf calls on one output            *)
(* directory.  Each call draws its arguments and what it finds in its      *)
(* environment: the source file, the binaries on the search path and the   *)
(* behaviour of the tool.                                                  *)
(***************************************************************************)
\* the stems of the source PDFs handed to compress_pdf
SourceStems == {<<"a">>, <<"b", ":">>}

\* the presets the calls are made with
PresetsTried == {"screen", "ebook"}

\* the search paths the calls are made under, by the binaries found on them
PathsTried == {{}, {"gs"}, {"gswin64c", "gswin32c"}}

InitCompress ==
    /\ ParseIdle
    /\ CompressIdle
    /\ ListIdle
    /\ PdfIdle
    /\ ImagesIdle
    /\ NameIdle
    /\ SessionIdle

CompressPdf ==
    /\ ~c_call.called
    /\ c_calls < MaxCalls
    /\ \E source \in SourceStems, preset \in PresetsTried,
          src_size \in {Absent} \cup (0..MaxSize),
          on_path \in PathsTried :
          \E tool \in (IF src_size # Absent /\ is_ghostscript_available(on_path)
                       THEN ToolOutcomes ELSE {NoTool}) :
             LET gs_binary == find_ghostscript(on_path)
                 done == compress_pdf(source, preset, src_size, gs_binary, tool, output_dir)
             IN  /\ c_call' = [called |-> TRUE, source |-> source, preset |-> preset,
                               src_size |-> src_size, gs_binary |-> gs_binary,
                               tool |-> tool, res |-> done.res]
                 /\ output_dir' = done.out
                 /\ c_calls' = c_calls + 1
    /\ UNCHANGED <<parseVars, listVars, pdfVars, imagesVars, nameVars, sessionVars>>

\* the caller is done with the outcome of the call
DiscardOutcome ==
    /\ c_call.called
    /\ c_call' = NoCall
    /\ UNCHANGED <<output_dir, c_calls>>
    /\ UNCHANGED <<parseVars, listVars, pdfVars, imagesVars, nameVars, sessionVars>>

NextCompress == CompressPdf \/ DiscardOutcome

SpecCompress == InitCompress /\ [][NextCompress]_vars

(***************************************************************************)
(* SpecList: list_images and list_pdfs called on a directory.  The         *)
(* directories are those of at most two files with stems of up to          *)
(* MaxStemLen characters, and a few of three files with longer names.      *)
(***************************************************************************)
StemChars == {"a", "B", "0", "1", "2", "^2"}

SuffixesTried == {<<".", "J", "P", "G">>, <<".", "p", "d", "f">>}

FilesTried ==
    {File(stem, suffix) : stem \in StringsUpTo(StemChars, MaxStemLen) \ {<<>>},
                          suffix \in SuffixesTried}

Png(stem) == File(stem, <<".", "p", "n", "g">>)

\* img2.png, img10.png, img1.png in each order, and three PDFs
SampleDirs ==
    LET img1 == Png(<<"i", "m", "g", "1">>)
        img2 == Png(<<"i", "m", "g", "2">>)
        img10 == Png(<<"i", "m", "g", "1", "0">>)
        imgs == {img1, img2, img10}
    IN  {d \in {<<f, g, h>> : f \in imgs, g \in imgs, h \in imgs} :
            d[1] # d[2] /\ d[1] # d[3] /\ d[2] # d[3]}
        \cup {<<File(<<"B", "1", "0">>, PDF_EXTENSION), File(<<"b", "2", "a">>, PDF_EXTENSION),
               File(<<"a", "1", "0", "0">>, PDF_EXTENSION)>>}

DirsTried ==
    {<<>>} \cup {<<f>> : f \in FilesTried}
    \cup {d \in {<<f, g>> : f \in FilesTried, g \in FilesTried} : d[1] # d[2]}
    \cup SampleDirs

InitList ==
    /\ ParseIdle
    /\ CompressIdle
    /\ l_exists \in BOOLEAN
    /\ l_dir \in (IF l_exists THEN DirsTried ELSE {<<>>})
    /\ l_which \in {"images", "pdfs"}
    /\ l_out = NotListed
    /\ l_again = NotListed
    /\ PdfIdle
    /\ ImagesIdle
    /\ NameIdle
    /\ SessionIdle

ListImages ==
    /\ l_out.tag = "none"
    /\ l_which = "images"
    /\ l_out' = list_images(l_exists, l_dir)
    /\ UNCHANGED <<l_exists, l_dir, l_which, l_again>>
    /\ UNCHANGED <<parseVars, compressVars, pdfVars, imagesVars, nameVars, sessionVars>>

ListPdfs ==
    /\ l_out.tag = "none"
    /\ l_which = "pdfs"
    /\ l_out' = list_pdfs(l_exists, l_dir)
    /\ UNCHANGED <<l_exists, l_dir, l_which, l_again>>
    /\ UNCHANGED <<parseVars, compressVars, pdfVars, imagesVars, nameVars, sessionVars>>

\* the orders in which iterdir() can yield the entries of one directory
Enumerations(entries) ==
    LET n == Len(entries)
        orders == {o \in [1..n -> 1..n] : \A i \in 1..n, j \in 1..n : o[i] = o[j] => i = j}
    IN  {[i \in 1..n |-> entries[o[i]]] : o \in orders}

\* the same lister called again on the unchanged directory, which iterdir()
\* enumerates in any order
ListAgain ==
    /\ l_out.tag # "none"
    /\ l_again.tag = "none"
    /\ \E entries \in Enumerations(l_dir) :
          l_again' = IF l_which = "images" THEN list_images(l_exists, entries)
                     ELSE list_pdfs(l_exists, entries)
    /\ UNCHANGED <<l_exists, l_dir, l_which, l_out>>
    /\ UNCHANGED <<parseVars, compressVars, pdfVars, imagesVars, nameVars, sessionVars>>

NextList == ListImages \/ ListPdfs \/ ListAgain

SpecList == InitList /\ [][NextList]_vars

(***************************************************************************)
(* SpecPdf: a sequence of pdf_to_images calls on one output directory.     *)
(* Each call draws its source, its format and what the conversion meets.   *)
(***************************************************************************)
\* the stems of the source PDFs handed to pdf_to_images
PdfStems == {<<"a">>, <<"a", " ", "b">>, <<"a", "_", "b">>}

\* the page counts of the documents
PagesTried == {0, 1, 2, 10}

PdfRunsDrawn ==
    {PdfRun(w, "ok", p, e) : w \in BOOLEAN, p \in PagesTried, e \in {0, 1, 2}}
    \cup {PdfRun(w, "FileDataError", 0, 0) : w \in BOOLEAN}
    \cup {PdfRun(TRUE, "ok", ManyPages, 0)}

\* the subdirectory a page path lies in
SubdirOf(path) ==
    LET slash == CHOOSE k \in 1..Len(path) : path[k] = "/"
    IN  SubSeq(path, 1, slash - 1)

\* the page files after a call: a path written again now belongs to the
\* source of this call
PagesAfter(pages, saved, source) ==
    {x \in pages : \A i \in 1..Len(saved) : saved[i] # x.path}
    \cup {[path |-> saved[i], source |-> source] : i \in 1..Len(saved)}

InitPdf ==
    /\ ParseIdle
    /\ CompressIdle
    /\ ListIdle
    /\ PdfIdle
    /\ ImagesIdle
    /\ NameIdle
    /\ SessionIdle

PdfToImages ==
    /\ ~p_call.called
    /\ p_calls < MaxCalls
    /\ Cardinality(p_pages) < ManyPages
    /\ \E source \in PdfStems, output_format \in {"png", "jpg"}, src_exists \in BOOLEAN :
          \E run \in (IF src_exists THEN PdfRunsDrawn ELSE {PdfRun(TRUE, "ok", 0, 0)}) :
             LET done == pdf_to_images(source, src_exists, 150, output_format, run, output_dir)
             IN  /\ run.pages = ManyPages => output_dir = EmptyDir
                 /\ p_call' = [called |-> TRUE, source |-> source, format |-> output_format,
                               src_exists |-> src_exists, run |-> run, before |-> output_dir,
                               res |-> done.res, saved |-> done.saved,
                               doc_open |-> done.doc_open]
                 /\ output_dir' = done.out
                 /\ p_pages' = PagesAfter(p_pages, done.saved, source)
                 /\ p_calls' = p_calls + 1
    /\ UNCHANGED <<parseVars, c_call, c_calls, listVars, imagesVars, nameVars, sessionVars>>

\* the caller is done with the outcome of the call
ForgetPdfCall ==
    /\ p_call.called
    /\ p_call' = NoPdfCall
    /\ UNCHANGED <<output_dir, p_calls, p_pages>>
    /\ UNCHANGED <<parseVars, c_call, c_calls, listVars, imagesVars, nameVars, sessionVars>>

NextPdf == PdfToImages \/ ForgetPdfCall

SpecPdf == InitPdf /\ [][NextPdf]_vars

(***************************************************************************)
(* SpecImages: images_to_pdf called with and without a list of paths, on   *)
(* input directories with and without images, into one output directory.   *)
(***************************************************************************)
\* the image files the calls meet
ImagesTried ==
    {Png(<<"2">>), Png(<<"1", "0">>), File(<<"a">>, <<".", "J", "P", "G">>)}

\* options.image_paths: nothing, one path, two paths (one path twice too)
PathsGiven ==
    {<<>>} \cup {<<f>> : f \in ImagesTried} \cup {<<f, g>> : f \in ImagesTried, g \in ImagesTried}

\* INPUT_DIR as iterdir() yields it
ImageDirsTried ==
    {<<>>,
     <<File(<<"a">>, PDF_EXTENSION)>>,
     <<Png(<<"1", "0">>), File(<<"a">>, PDF_EXTENSION), Png(<<"2">>)>>,
     <<File(<<"B", "1">>, <<".", "J", "P", "G">>), Png(<<"a", "2">>), Png(<<"a", "1", "0">>)>>,
     <<Png(<<"^2">>)>>}

\* options.output_name
OutputNamesTried == {<<"o">>, <<"o", " ", "1">>}

InitImages ==
    /\ ParseIdle
    /\ CompressIdle
    /\ ListIdle
    /\ PdfIdle
    /\ ImagesIdle
    /\ NameIdle
    /\ SessionIdle

ImagesToPdf ==
    /\ ~i_call.called
    /\ i_calls < MaxCalls
    /\ \E given \in PathsGiven, name \in OutputNamesTried, exists \in BOOLEAN,
          outcome \in ImageRuns, opened \in 0..1 :
          \E dir \in (IF exists THEN ImageDirsTried ELSE {<<>>}) :
             LET run == ImageRun(outcome, opened)
                 done == images_to_pdf(given, name, exists, dir, run, output_dir)
             IN  /\ i_call' = [called |-> TRUE, given |-> given, name |-> name,
                               exists |-> exists, dir |-> dir, run |-> run,
                               before |-> output_dir, res |-> done.res, pages |-> done.pages,
                               converted_open |-> done.converted_open,
                               copies_open |-> done.copies_open]
                 /\ output_dir' = done.out
                 /\ i_calls' = i_calls + 1
    /\ UNCHANGED <<parseVars, c_call, c_calls, listVars, pdfVars, nameVars, sessionVars>>

\* the caller is done with the outcome of the call
ForgetImagesCall ==
    /\ i_call.called
    /\ i_call' = NoImagesCall
    /\ UNCHANGED <<output_dir, i_calls>>
    /\ UNCHANGED <<parseVars, c_call, c_calls, listVars, pdfVars, nameVars, sessionVars>>

NextImages == ImagesToPdf \/ ForgetImagesCall

SpecImages == InitImages /\ [][NextImages]_vars

(***************************************************************************)
(* SpecNames: sanitize_filename applied to every name of up to MaxNameLen  *)
(* characters: a letter, the dot, the blank, the underscore and three of   *)
(* the unsafe characters.                                                  *)
(***************************************************************************)
NameChars == {"a", ".", " ", "_", ":", "/", "\\"}

InitNames ==
    /\ n_name \in StringsUpTo(NameChars, MaxNameLen)
    /\ n_safe = NotSanitized
    /\ ParseIdle
    /\ CompressIdle
    /\ ListIdle
    /\ PdfIdle
    /\ ImagesIdle
    /\ SessionIdle

Sanitize ==
    /\ n_safe = NotSanitized
    /\ n_safe' = sanitize_filename(n_name)
    /\ UNCHANGED n_name
    /\ UNCHANGED <<parseVars, compressVars, listVars, pdfVars, imagesVars, sessionVars>>

NextNames == Sanitize

SpecNames == InitNames /\ [][NextNames]_vars

(***************************************************************************)
(* Spec: a session of the menu loop (cli/menu.py, run from main.py).  A    *)
(* step is what the program does with one line read, up to the next read.  *)
(* The lines typed, the binaries on the search path and what a conversion  *)
(* meets are drawn from the sets below.                                    *)
(***************************************************************************)
\* KeyboardInterrupt and EOFError, raised by input()
Interrupts == {"KeyboardInterrupt", "EOFError"}

\* the prompts below the menu
NestedPrompts ==
    {"img_select", "img_confirm", "out_name", "pdf_confirm", "pdf_number",
     "dpi", "fmt", "preset"}

InputDirsTried ==
    {<<>>,
     <<File(<<"a">>, PDF_EXTENSION)>>,
     <<File(<<"b">>, PDF_EXTENSION), Png(<<"a", "2">>), File(<<"a">>, PDF_EXTENSION),
       Png(<<"a", "1">>)>>}

\* the lines typed at a prompt
LinesTried(prompt) ==
    CASE prompt = "menu" -> {<<"1">>, <<" ", "2">>, <<"3">>, <<"4">>, <<"x">>}
      [] prompt = "img_select" ->
           {<<>>, <<"*">>, <<"0">>, <<"0", " ">>, <<"2", " ", "1">>, <<"3">>, <<"1", "*">>}
      [] prompt \in {"img_confirm", "pdf_confirm"} -> {<<>>, <<"n">>, <<"Y">>}
      [] prompt = "out_name" -> {<<>>, <<"b">>, <<"a", ":">>}
      [] prompt = "pdf_number" -> {<<>>, <<"0">>, <<"2">>, <<"3">>, <<"x">>}
      [] prompt = "dpi" -> {<<>>, <<"3", "0", "0">>, <<"1", "0">>, <<"x">>}
      [] prompt = "fmt" -> {<<>>, <<"j", "p", "g">>, <<"x">>}
      [] prompt = "preset" -> {<<>>, <<"s", "c", "r", "e", "e", "n">>, <<"x">>}

\* what a pdf_to_images call of the session meets
PdfRunsTried ==
    {PdfRun(TRUE, "ok", 2, 0), PdfRun(TRUE, "ok", 0, 0), PdfRun(TRUE, "FileDataError", 0, 0),
     PdfRun(TRUE, "ok", 2, 2), PdfRun(FALSE, "ok", 1, 0)}

\* what the tool does in a compress_pdf call of the session
ToolsTried ==
    {ToolRun("ran", 0, <<>>, <<>>, 1), ToolRun("ran", 0, <<>>, <<>>, NotWritten),
     ToolRun("ran", 1, <<" ", "e", "r", " ">>, <<>>, NotWritten),
     ToolRun("PermissionError", 0, <<>>, <<>>, NotWritten),
     ToolRun("FileNotFoundError", 0, <<>>, <<>>, NotWritten)}

\* the size of a PDF of the input directory
SourceSize == 2

Init ==
    /\ pc = "menu"
    /\ turns = 0
    /\ input_dir \in InputDirsTried
    /\ m_ctx = NoCtx
    /\ m_last = NothingShown
    /\ m_exit = Running
    /\ m_read = NothingRead
    /\ ParseIdle
    /\ CompressIdle
    /\ ListIdle
    /\ PdfIdle
    /\ ImagesIdle
    /\ NameIdle

\* the handler returns and the loop shows the menu again
BackToMenu(shown) ==
    /\ pc' = "menu"
    /\ m_ctx' = NoCtx
    /\ m_last' = shown
    /\ UNCHANGED m_exit

\* an exception leaves run_menu_loop: main() catches Exception, prints and
\* exits with status 1; a KeyboardInterrupt passes main() as well
Crash(exc) ==
    /\ pc' = "crashed"
    /\ m_ctx' = NoCtx
    /\ m_exit' = Ended(IF exc = "KeyboardInterrupt" THEN "traceback" ELSE "exit1", exc)
    /\ UNCHANGED m_last

\* the prompt rejects the line and reads again
PromptAgain == UNCHANGED <<pc, m_ctx, m_last, m_exit>>

\* on to the next prompt of the handler
NextPrompt(prompt, ctx) ==
    /\ pc' = prompt
    /\ m_ctx' = ctx
    /\ UNCHANGED <<m_last, m_exit>>

\* the except clauses around the conversion call of a handler
Finish(res) ==
    IF res.tag = "return" THEN BackToMenu(Shown("success", "none", res.result.message.form))
    ELSE IF res.exc \in PDFToolsErrors THEN BackToMenu(Shown("error", res.exc, res.emsg.fmt))
    ELSE Crash(res.exc)

\* handle_images_to_pdf up to the first read of prompt_image_selection
StartImagesToPdf ==
    LET images == list_images(TRUE, input_dir)
    IN  IF images.tag = "raise" THEN Crash(images.exc)
        ELSE IF images.files = <<>> THEN BackToMenu(Shown("cancelled", "none", "none"))
        ELSE NextPrompt("img_select", [NoCtx EXCEPT !.op = "1", !.listing = images.files])

\* prompt_pdf_selection up to its read, in handle_pdf_to_images (op "2") and
\* handle_compress_pdf (op "3")
StartPdfSelection(op, on_path) ==
    LET pdfs == list_pdfs(TRUE, input_dir)
        ctx == [NoCtx EXCEPT !.op = op, !.listing = pdfs.files, !.on_path = on_path]
    IN  IF pdfs.tag = "raise" THEN Crash(pdfs.exc)
        ELSE IF pdfs.files = <<>> THEN BackToMenu(Shown("cancelled", "none", "none"))
        ELSE IF Len(pdfs.files) = 1 THEN NextPrompt("pdf_confirm", ctx)
        ELSE NextPrompt("pdf_number", ctx)

\* the handler goes on with the PDF selected
PdfSelected(pdf) ==
    NextPrompt(IF m_ctx.op = "2" THEN "dpi" ELSE "preset", [m_ctx EXCEPT !.pdf = pdf])

\* run_menu_loop: a line read at the menu
ReadChoice ==
    /\ pc = "menu"
    /\ turns < MaxTurns
    /\ turns' = turns + 1
    /\ \E line \in LinesTried(pc) :
          /\ m_read' = Read(pc, "line", line, NoTurn, FALSE)
          /\ LET choice == py_strip(line)
             IN  \E on_path \in (IF choice = <<"3">> THEN PathsTried ELSE {{}}) :
                    CASE choice = <<"1">> -> StartImagesToPdf
                      [] choice = <<"2">> -> StartPdfSelection("2", on_path)
                      [] choice = <<"3">> ->
                           IF ~is_ghostscript_available(on_path)
                           THEN BackToMenu(Shown("error", "none", "gs_not_found"))
                           ELSE StartPdfSelection("3", on_path)
                      [] choice = <<"4">> ->
                           /\ pc' = "exited"
                           /\ m_exit' = Ended("goodbye", "none")
                           /\ UNCHANGED <<m_ctx, m_last>>
                      [] OTHER -> BackToMenu(Shown("invalid_choice", "none", "none"))
    /\ UNCHANGED <<input_dir, output_dir>>
    /\ UNCHANGED <<parseVars, c_call, c_calls, listVars, pdfVars, imagesVars, nameVars>>

\* run_menu_loop: KeyboardInterrupt or EOFError at the menu
MenuInterrupt ==
    /\ pc = "menu"
    /\ \E exc \in Interrupts :
          /\ m_read' = Read(pc, exc, <<>>, NoTurn, FALSE)
          /\ pc' = "exited"
          /\ m_exit' = Ended("goodbye", exc)
    /\ UNCHANGED <<turns, input_dir, m_ctx, m_last, output_dir>>
    /\ UNCHANGED <<parseVars, c_call, c_calls, listVars, pdfVars, imagesVars, nameVars>>

\* KeyboardInterrupt or EOFError at a prompt of a handler: no prompt and no
\* handler catches it
PromptInterrupt ==
    /\ pc \in NestedPrompts
    /\ \E exc \in Interrupts :
          /\ m_read' = Read(pc, exc, <<>>, NoTurn, FALSE)
          /\ Crash(exc)
    /\ UNCHANGED <<turns, input_dir, output_dir>>
    /\ UNCHANGED <<parseVars, c_call, c_calls, listVars, pdfVars, imagesVars, nameVars>>

\* prompt_image_selection: a line read in its loop
ImgSelect ==
    /\ pc = "img_select"
    /\ \E line \in LinesTried(pc) :
          /\ m_read' = Read(pc, "line", line, prompt_image_selection(m_ctx.listing, line), FALSE)
          /\ LET pick == prompt_image_selection(m_ctx.listing, line).pick
             IN  CASE pick.tag = "all" -> NextPrompt("out_name", [m_ctx EXCEPT !.images = pick.paths])
                   [] pick.tag = "cancel" -> BackToMenu(Shown("cancelled", "none", "none"))
                   [] pick.tag = "retry" -> PromptAgain
                   [] pick.tag = "selected" ->
                        NextPrompt("img_confirm", [m_ctx EXCEPT !.images = pick.paths])
                   [] pick.tag = "IndexError" -> Crash("IndexError")
    /\ UNCHANGED <<turns, input_dir, output_dir>>
    /\ UNCHANGED <<parseVars, c_call, c_calls, listVars, pdfVars, imagesVars, nameVars>>

\* prompt_image_selection: the confirmation of the selected order
ImgConfirm ==
    /\ pc = "img_confirm"
    /\ \E line \in LinesTried(pc) :
          /\ m_read' = Read(pc, "line", line, NoTurn, FALSE)
          /\ IF prompt_confirm(line, TRUE)
             THEN NextPrompt("out_name", m_ctx)
             ELSE NextPrompt("img_select", [m_ctx EXCEPT !.images = <<>>])
    /\ UNCHANGED <<turns, input_dir, output_dir>>
    /\ UNCHANGED <<parseVars, c_call, c_calls, listVars, pdfVars, imagesVars, nameVars>>

\* handle_images_to_pdf: the output name read, then the conversion
OutName ==
    /\ pc = "out_name"
    /\ \E line \in LinesTried(pc) :
          /\ m_read' = Read(pc, "line", line, NoTurn, prompt_output_name(line).done)
          /\ LET output_name == prompt_output_name(line)
             IN  IF ~output_name.done
                 THEN PromptAgain /\ UNCHANGED output_dir
                 ELSE \E outcome \in ImageRuns :
                         LET done == images_to_pdf(m_ctx.images, output_name.value, TRUE,
                                                   input_dir, ImageRun(outcome, 0), output_dir)
                         IN  output_dir' = done.out /\ Finish(done.res)
    /\ UNCHANGED <<turns, input_dir>>
    /\ UNCHANGED <<parseVars, c_call, c_calls, listVars, pdfVars, imagesVars, nameVars>>

\* prompt_pdf_selection: the only PDF offered
PdfConfirm ==
    /\ pc = "pdf_confirm"
    /\ \E line \in LinesTried(pc) :
          /\ m_read' = Read(pc, "line", line, NoTurn, FALSE)
          /\ IF prompt_confirm(line, TRUE)
             THEN PdfSelected(m_ctx.listing[1])
             ELSE BackToMenu(Shown("cancelled", "none", "none"))
    /\ UNCHANGED <<turns, input_dir, output_dir>>
    /\ UNCHANGED <<parseVars, c_call, c_calls, listVars, pdfVars, imagesVars, nameVars>>

\* prompt_pdf_selection: the number of a PDF read
PdfNumber ==
    /\ pc = "pdf_number"
    /\ \E line \in LinesTried(pc) :
          /\ m_read' = Read(pc, "line", line, NoTurn, FALSE)
          /\ LET choice == prompt_int(line, NoDefault, 0, Len(m_ctx.listing))
             IN  IF ~choice.done THEN PromptAgain
                 ELSE IF choice.value = 0 THEN BackToMenu(Shown("cancelled", "none", "none"))
                 ELSE PdfSelected(m_ctx.listing[choice.value])
    /\ UNCHANGED <<turns, input_dir, output_dir>>
    /\ UNCHANGED <<parseVars, c_call, c_calls, listVars, pdfVars, imagesVars, nameVars>>

\* handle_pdf_to_images: the DPI read
Dpi ==
    /\ pc = "dpi"
    /\ \E line \in LinesTried(pc) :
          /\ m_read' = Read(pc, "line", line, NoTurn, FALSE)
          /\ LET dpi == prompt_dpi(line)
             IN  IF ~dpi.done THEN PromptAgain
                 ELSE NextPrompt("fmt", [m_ctx EXCEPT !.dpi = dpi.value])
    /\ UNCHANGED <<turns, input_dir, output_dir>>
    /\ UNCHANGED <<parseVars, c_call, c_calls, listVars, pdfVars, imagesVars, nameVars>>

\* handle_pdf_to_images: the format read, then the conversion
Fmt ==
    /\ pc = "fmt"
    /\ \E line \in LinesTried(pc) :
          /\ m_read' = Read(pc, "line", line, NoTurn, prompt_image_format(line).done)
          /\ LET fmt == prompt_image_format(line)
             IN  IF ~fmt.done
                 THEN PromptAgain /\ UNCHANGED output_dir
                 ELSE \E run \in PdfRunsTried :
                         LET done == pdf_to_images(m_ctx.pdf.stem, TRUE, m_ctx.dpi, fmt.value,
                                                   run, output_dir)
                         IN  output_dir' = done.out /\ Finish(done.res)
    /\ UNCHANGED <<turns, input_dir>>
    /\ UNCHANGED <<parseVars, c_call, c_calls, listVars, pdfVars, imagesVars, nameVars>>

\* handle_compress_pdf: the preset read, then the compression
Preset ==
    /\ pc = "preset"
    /\ \E line \in LinesTried(pc) :
          /\ m_read' = Read(pc, "line", line, NoTurn, prompt_compression_preset(line).done)
          /\ LET preset == prompt_compression_preset(line)
             IN  IF ~preset.done
                 THEN PromptAgain /\ UNCHANGED output_dir
                 ELSE \E tool \in ToolsTried :
                         LET done == compress_pdf(m_ctx.pdf.stem, preset.value, SourceSize,
                                                  find_ghostscript(m_ctx.on_path), tool,
                                                  output_dir)
                         IN  output_dir' = done.out /\ Finish(done.res)
    /\ UNCHANGED <<turns, input_dir>>
    /\ UNCHANGED <<parseVars, c_call, c_calls, listVars, pdfVars, imagesVars, nameVars>>

Next ==
    \/ ReadChoice
    \/ MenuInterrupt
    \/ PromptInterrupt
    \/ ImgSelect
    \/ ImgConfirm
    \/ OutName
    \/ PdfConfirm
    \/ PdfNumber
    \/ Dpi
    \/ Fmt
    \/ Preset

Spec == Init /\ [][Next]_vars

(***************************************************************************)
(* The reading of a selection string that the claims speak of: its tokens  *)
(* are the maximal runs of non-blank characters, a numeral is a non-empty  *)
(* run of digits, a pair is numeral-hyphen-numeral.                        *)
(***************************************************************************)
TokenSpans(raw) ==
    {sp \in (1..Len(raw)) \X (1..Len(raw)) :
        /\ sp[1] <= sp[2]
        /\ \A k \in sp[1]..sp[2] : raw[k] \notin Whitespace
        /\ sp[1] = 1 \/ raw[sp[1] - 1] \in Whitespace
        /\ sp[2] = Len(raw) \/ raw[sp[2] + 1] \in Whitespace}

TokenOf(raw, sp) == SubSeq(raw, sp[1], sp[2])

IsNumeral(t) == Len(t) >= 1 /\ \A k \in 1..Len(t) : t[k] \in Digits

RECURSIVE Horner(_, _)
Horner(t, acc) == IF t = <<>> THEN acc ELSE Horner(Tail(t), 10 * acc + DigitVal(Head(t)))

NumeralValue(t) == Horner(t, 0)

\* the positions k at which t reads numeral-hyphen-numeral (at most one)
PairSplits(t) ==
    {k \in 2..(Len(t) - 1) :
        /\ t[k] = "-"
        /\ IsNumeral(SubSeq(t, 1, k - 1))
        /\ IsNumeral(SubSeq(t, k + 1, Len(t)))}

IsPair(t) == PairSplits(t) # {}
PairStart(t) == LET k == CHOOSE k \in PairSplits(t) : TRUE IN NumeralValue(SubSeq(t, 1, k - 1))
PairEnd(t) == LET k == CHOOSE k \in PairSplits(t) : TRUE IN NumeralValue(SubSeq(t, k + 1, Len(t)))

WellFormedToken(t) == IsNumeral(t) \/ IsPair(t)

\* a single n or a pair a-b with every number in 1..max_count
ValidToken(t, max_count) ==
    \/ IsNumeral(t) /\ NumeralValue(t) \in 1..max_count
    \/ IsPair(t) /\ PairStart(t) \in 1..max_count /\ PairEnd(t) \in 1..max_count

\* the run a valid token stands for
TokenRun(t) ==
    IF IsNumeral(t)
    THEN <<NumeralValue(t) - 1>>
    ELSE LET a == PairStart(t)
             b == PairEnd(t)
         IN  IF a <= b
             THEN [i \in 1..(b - a + 1) |-> a - 2 + i]
             ELSE [i \in 1..(a - b + 1) |-> a - i]

RECURSIVE RunsInOrder(_, _)
\* the runs of the tokens at the spans sps, concatenated by position
RunsInOrder(raw, sps) ==
    IF sps = {} THEN <<>>
    ELSE LET first == CHOOSE sp \in sps : \A other \in sps : sp[1] <= other[1]
         IN  TokenRun(TokenOf(raw, first)) \o RunsInOrder(raw, sps \ {first})

AllTokensValid(raw, max_count) ==
    \A sp \in TokenSpans(raw) : ValidToken(TokenOf(raw, sp), max_count)

\* a number outside 1..max_count, alone or as an endpoint of a range
HasOutOfRangeNumber(t, max_count) ==
    \/ IsNumeral(t) /\ NumeralValue(t) \notin 1..max_count
    \/ IsPair(t) /\ (PairStart(t) \notin 1..max_count \/ PairEnd(t) \notin 1..max_count)

StatesValidRange(msg, max_count) == msg.lo = 1 /\ msg.hi = max_count

MalformedFormats == {"range_format", "range_not_numbers", "not_a_number"}

\* the first token that is neither a numeral nor a pair
FirstMalformedSpan(raw) ==
    CHOOSE sp \in TokenSpans(raw) :
        /\ ~WellFormedToken(TokenOf(raw, sp))
        /\ \A other \in TokenSpans(raw) :
              other[1] < sp[1] => WellFormedToken(TokenOf(raw, other))

(***************************************************************************)
(* Claims about _parse_number_selection, under SpecParse.                  *)
(***************************************************************************)

\* C1: on an input whose tokens are all single numbers n or pairs a-b with
\* every number in 1..max_count, the parser returns the concatenation, in
\* token order, of [n-1], of the ascending run a-1..b-1 (a <= b) and of the
\* descending run a-1..b-1 (a > b), endpoints included.
C1_ParseReturnsRunsInOrder ==
    (sel_out.tag # "pending" /\ AllTokensValid(sel_raw, sel_max))
        => sel_out = Returned(RunsInOrder(sel_raw, TokenSpans(sel_raw)))

\* a descending range of three followed by a second token has been parsed
C1_Witness ==
    /\ sel_out.tag = "ok"
    /\ Cardinality(TokenSpans(sel_raw)) = 2
    /\ sel_out.indices = <<2, 1, 0, 1>>

\* the images of the listing
Listing(n) == {DisplayedImages(n)[i] : i \in 1..n}

\* C2: every index of a list the parser returns lies in [0, max_count); in
\* prompt_image_selection the lookup images[i] is never out of range, every
\* selected path is an image of the listing displayed, and the paths are the
\* images of the numbers entered, repeats included, in the order entered.
C2_SelectedPathsAreListed ==
    /\ sel_out.tag = "ok"
          => \A k \in 1..Len(sel_out.indices) : sel_out.indices[k] \in 0..(sel_max - 1)
    /\ sel_pick.tag # "IndexError"
    /\ sel_pick.tag = "selected"
          => /\ \A k \in 1..Len(sel_pick.paths) : sel_pick.paths[k] \in Listing(sel_max)
             /\ AllTokensValid(sel_raw, sel_max)
             /\ LET entered == RunsInOrder(sel_raw, TokenSpans(sel_raw))
                IN  /\ Len(sel_pick.paths) = Len(entered)
                    /\ \A k \in 1..Len(entered) : sel_pick.paths[k] = entered[k] + 1

\* image 2, then images 1 and 2 again, have been selected
C2_Witness ==
    /\ sel_raw = <<"2", " ", "1", "-", "2">>
    /\ sel_pick = Picked("selected", <<2, 1, 2>>)

\* C3 as stated: whenever some token holds a number outside 1..max_count,
\* the parser fails with a message that states the range 1..max_count.
C3_AnyOutOfRangeNumberStatesRange ==
    (sel_out.tag # "pending"
        /\ \E sp \in TokenSpans(sel_raw) : HasOutOfRangeNumber(TokenOf(sel_raw, sp), sel_max))
        => (sel_out.tag = "error" /\ StatesValidRange(sel_out.msg, sel_max))

\* C3, amended: when a token holds a number outside 1..max_count and every
\* token before it is well-formed (a number, or a pair of numbers), the
\* parser fails with a message that states the range
\* 1..max_count and returns no list, whatever valid tokens came first.
C3_OutOfRangeAfterWellFormedStatesRange ==
    (sel_out.tag # "pending"
        /\ \E sp \in TokenSpans(sel_raw) :
              /\ HasOutOfRangeNumber(TokenOf(sel_raw, sp), sel_max)
              /\ \A other \in TokenSpans(sel_raw) :
                    other[1] < sp[1] => WellFormedToken(TokenOf(sel_raw, other)))
        => (/\ sel_out.tag = "error"
            /\ sel_out.indices = <<>>
            /\ sel_out.msg.fmt \in {"range_bounds", "number_bounds"}
            /\ StatesValidRange(sel_out.msg, sel_max))

\* a 0 after two valid tokens has been rejected with the range message
C3_Witness ==
    /\ sel_raw = <<"1", " ", "2", " ", "0">>
    /\ sel_out.tag = "error"
    /\ StatesValidRange(sel_out.msg, sel_max)

\* C4: every failure caused by a malformed token (a single token that is not
\* a number, a range token without exactly two parts, a range token with a
\* part that is not a number) carries a message that identifies the token.
C4_MalformedTokenIsNamed ==
    (sel_out.tag = "error" /\ sel_out.msg.fmt \in MalformedFormats)
        => sel_out.msg.token = TokenOf(sel_raw, FirstMalformedSpan(sel_raw))

(***************************************************************************)
(* Claims about compress_pdf and run_ghostscript, under SpecCompress.      *)
(***************************************************************************)
\* the declared output file of the last call
LastOutputName == CompressOutputName(c_call.source, c_call.preset)

\* the tool was started by the last call and ran to an exit code
ToolRan == c_call.called /\ c_call.tool.launch = "ran"

\* text without its leading and trailing blanks, read off the positions of
\* its non-blank characters
Stripped(text) ==
    LET solid == {i \in 1..Len(text) : text[i] \notin Whitespace}
    IN  IF solid = {} THEN <<>>
        ELSE SubSeq(text, CHOOSE i \in solid : \A j \in solid : i <= j,
                          CHOOSE i \in solid : \A j \in solid : i >= j)

\* C6: whenever the locator finds no binary, compress_pdf fails with
\* ToolNotFoundError carrying the install instructions, for every source
\* path, a missing one included.
C6_ToolCheckedBeforeSource ==
    (c_call.called /\ c_call.gs_binary = NoBinary)
        => c_call.res = Raise("ToolNotFoundError", MsgInstallHint)

\* C7: when the tool is found, the source exists, the tool exits 0 and the
\* declared output file exists, compress_pdf returns success = true with
\* files_count = 1; the message is the savings form exactly when the output
\* is smaller than the input and the no-decrease form exactly when it is
\* not, and for an input of size 0 the reduction is 0 without a division.
C7_ExitZeroWithOutputSucceeds ==
    (/\ ToolRan
     /\ c_call.tool.returncode = 0
     /\ FileExists(output_dir, LastOutputName))
        => LET new_size == output_dir[LastOutputName]
               result == c_call.res.result
           IN  /\ c_call.res.tag = "return"
               /\ result.success = TRUE
               /\ result.files_count = 1
               /\ result.output_path = LastOutputName
               /\ (result.message.form = "savings") <=> (new_size < c_call.src_size)
               /\ (result.message.form = "no_decrease") <=> (new_size >= c_call.src_size)
               /\ result.message.original = c_call.src_size
               /\ result.message.new = new_size
               /\ c_call.src_size = 0 => result.message.reduction = <<0, 1>>

\* both forms of the message have been produced: an output of the input's
\* size on a second call, after a saving on the first
C7_Witness ==
    /\ c_calls = 2
    /\ ToolRan
    /\ c_call.tool.returncode = 0
    /\ c_call.tool.wrote = c_call.src_size
    /\ c_call.res.tag = "return"
    /\ c_call.res.result.message.form = "no_decrease"

\* C8: a call in which the tool exits 0 without producing the declared
\* output file fails with the missing-output OperationError and returns no
\* success, whatever earlier calls left in the output directory.
C8_ExitZeroWithoutOutputFails ==
    (ToolRan /\ c_call.tool.returncode = 0 /\ c_call.tool.wrote = NotWritten)
        => c_call.res = Raise("OperationError", MsgGsNoOutput)

\* C9: when the tool exits with a non-zero code the call fails with an
\* OperationError whose message holds the exit code and the stripped stderr
\* if that is not empty, else the stripped stdout if that is not empty, else
\* "Unknown error"; no result is returned and the check for the output file
\* is not reached.
C9_NonZeroExitIsReported ==
    (ToolRan /\ c_call.tool.returncode # 0)
        => /\ c_call.res.tag = "raise"
           /\ c_call.res.exc = "OperationError"
           /\ c_call.res.emsg.fmt = "gs_failed"
           /\ c_call.res.emsg.code = c_call.tool.returncode
           /\ c_call.res.emsg.diag =
                 (IF Stripped(c_call.tool.stderr) # <<>> THEN Stripped(c_call.tool.stderr)
                  ELSE IF Stripped(c_call.tool.stdout) # <<>> THEN Stripped(c_call.tool.stdout)
                  ELSE UnknownError)
           /\ c_call.res.result = NoResult

\* a failed run whose stderr held only a blank was reported with its stdout,
\* although the declared output file was there
C9_Witness ==
    /\ ToolRan
    /\ c_call.tool.returncode = 2
    /\ c_call.tool.stderr = <<" ">>
    /\ c_call.tool.stdout = <<" ", "o", " ">>
    /\ c_call.res.emsg.diag = <<"o">>
    /\ FileExists(output_dir, LastOutputName)

(***************************************************************************)
(* Claims about file discovery, under SpecList.                            *)
(***************************************************************************)
\* text order: at the first position where a and b differ, a has ended or
\* holds the character of the smaller code
TextBefore(a, b) ==
    \E k \in 1..Len(b) :
        /\ k <= Len(a) + 1
        /\ \A i \in 1..(k - 1) : a[i] = b[i]
        /\ k = Len(a) + 1 \/ CharCode(a[k]) < CharCode(b[k])

\* the length of the run of non-digits (digits = FALSE) or of digits
\* (digits = TRUE) that s begins with
RunLength(s, digits) ==
    CHOOSE n \in 0..Len(s) :
        /\ \A i \in 1..n : (s[i] \in Digits) = digits
        /\ n = Len(s) \/ (s[n + 1] \in Digits) # digits

Drop(s, n) == SubSeq(s, n + 1, Len(s))

RECURSIVE NaturallyBefore(_, _)
\* natural order of two lower-cased stems, run by run: a non-digit run
\* against a non-digit run as text, a digit run against a digit run by
\* value, and a stem that ends where the other goes on comes first
NaturallyBefore(s, t) ==
    LET ps == SubSeq(s, 1, RunLength(s, FALSE))
        pt == SubSeq(t, 1, RunLength(t, FALSE))
        rs == Drop(s, Len(ps))
        rt == Drop(t, Len(pt))
        ns == SubSeq(rs, 1, RunLength(rs, TRUE))
        nt == SubSeq(rt, 1, RunLength(rt, TRUE))
    IN  IF ps # pt THEN TextBefore(ps, pt)
        ELSE IF rs = <<>> \/ rt = <<>> THEN rs = <<>> /\ rt # <<>>
        ELSE IF NumeralValue(ns) # NumeralValue(nt) THEN NumeralValue(ns) < NumeralValue(nt)
        ELSE NaturallyBefore(Drop(rs, Len(ns)), Drop(rt, Len(nt)))

\* s and t are one text around one number, and the number of s is smaller
SmallerEmbeddedNumber(s, t) ==
    \E p \in 0..Len(s), q \in 0..Len(s) :
        /\ p + q < Len(s) /\ p + q < Len(t)
        /\ SubSeq(s, 1, p) = SubSeq(t, 1, p)
        /\ SubSeq(s, Len(s) - q + 1, Len(s)) = SubSeq(t, Len(t) - q + 1, Len(t))
        /\ p = 0 \/ s[p] \notin Digits
        /\ q = 0 \/ s[Len(s) - q + 1] \notin Digits
        /\ LET ns == SubSeq(s, p + 1, Len(s) - q)
               nt == SubSeq(t, p + 1, Len(t) - q)
           IN  IsNumeral(ns) /\ IsNumeral(nt) /\ NumeralValue(ns) < NumeralValue(nt)

Lowered(stem) == [i \in 1..Len(stem) |-> IF stem[i] = "A" THEN "a" ELSE IF stem[i] = "B" THEN "b" ELSE stem[i]]

\* C10: a listing is in natural order of the lower-cased stems (no file
\* stands behind one that it naturally precedes), of two listed stems that
\* differ only in one embedded number the one with the smaller value comes
\* first, and building the order never compares a number with text.
C10_ListingInNaturalOrder ==
    (l_out.tag # "none")
        => /\ l_out.tag = "return"
           /\ \A i \in 1..Len(l_out.files), j \in 1..Len(l_out.files) :
                 i < j =>
                    /\ ~NaturallyBefore(Lowered(l_out.files[j].stem), Lowered(l_out.files[i].stem))
                    /\ ~SmallerEmbeddedNumber(l_out.files[j].stem, l_out.files[i].stem)

\* img2, img10, img1 have been listed as img1, img2, img10
C10_Witness ==
    /\ l_dir = <<Png(<<"i", "m", "g", "2">>), Png(<<"i", "m", "g", "1", "0">>),
                 Png(<<"i", "m", "g", "1">>)>>
    /\ l_out = Listed(<<Png(<<"i", "m", "g", "1">>), Png(<<"i", "m", "g", "2">>),
                        Png(<<"i", "m", "g", "1", "0">>)>>)

(***************************************************************************)
(* Claims about the menu session, under Spec.                              *)
(***************************************************************************)
\* C5: no failure of a selected operation ends the session: whatever error an
\* operation raises, control returns to the menu, and the session ends only
\* by choice 4 or by an interrupt or end of input (here wherever the
\* interrupt arrives).
C5_OperationFailureReturnsToMenu ==
    m_exit.how # "running" => m_exit.exc \in {"none"} \cup Interrupts

\* C11: a second listing of an unchanged directory returns the sequence the
\* first returned, whatever order the directory is enumerated in.
C11_RelistingIsIdentical ==
    (l_again.tag # "none") => l_again = l_out

(***************************************************************************)
(* Claims about pdf_to_images, under SpecPdf.                              *)
(***************************************************************************)
\* the number of decimal digits of n >= 1
DigitCount(n) == CHOOSE d \in 1..5 : (d = 1 \/ n >= 10 ^ (d - 1)) /\ n < 10 ^ d

\* name reads page_<i><ext> with <i> of exactly width digits
IsPageName(name, i, width, ext) ==
    LET prefix == <<"p", "a", "g", "e", "_">>
        number == SubSeq(name, Len(prefix) + 1, Len(prefix) + width)
    IN  /\ Len(name) = Len(prefix) + width + Len(ext)
        /\ SubSeq(name, 1, Len(prefix)) = prefix
        /\ \A k \in 1..width : \E d \in 1..10 : number[k] = DecimalDigits[d]
        /\ NumeralValue(number) = i
        /\ SubSeq(name, Len(name) - Len(ext) + 1, Len(name)) = ext

\* the file name of a page path
FileNameOf(path) == SubSeq(path, Len(SubdirOf(path)) + 2, Len(path))

\* C12: a successful run on a document of P >= 1 pages writes exactly P
\* files, page i as the i-th, named page_<i><ext> with <i> padded with zeros
\* to max(3, digits of P) digits; the names have one length, are pairwise
\* distinct and stand in string order, and files_count is P.
C12_OnePaddedFilePerPage ==
    (p_call.called /\ p_call.res.tag = "return")
        => LET P == p_call.run.pages
               saved == p_call.saved
               width == IF DigitCount(P) > 3 THEN DigitCount(P) ELSE 3
               ext == IF p_call.format = "jpg" THEN <<".", "j", "p", "g">>
                      ELSE <<".", "p", "n", "g">>
           IN  /\ P >= 1
               /\ Len(saved) = P
               /\ p_call.res.result.files_count = P
               /\ \A i \in 1..P : IsPageName(FileNameOf(saved[i]), i, width, ext)
               /\ \A i \in 1..P : Len(saved[i]) = Len(saved[1])
               /\ Cardinality({saved[i] : i \in 1..P}) = P
               /\ \A i \in 1..(P - 1) : TextBefore(saved[i], saved[i + 1])
               /\ (DOMAIN output_dir) \ (DOMAIN p_call.before)
                     \subseteq {saved[i] : i \in 1..P} \cup {SubdirOf(saved[1])}
               /\ \A i \in 1..P : saved[i] \in DOMAIN output_dir

\* the document of ManyPages pages has been converted
C12_Witness ==
    /\ p_call.called
    /\ p_call.res.tag = "return"
    /\ p_call.run.pages = ManyPages
    /\ Len(p_call.saved) = ManyPages

\* C13: page files that lie in one subdirectory of the output directory come
\* from one source PDF.
C13_SubdirectoryHoldsOneSource ==
    \A x \in p_pages, y \in p_pages :
        SubdirOf(x.path) = SubdirOf(y.path) => x.source = y.source

\* the subdirectory of the call could be used: it was there or could be made
SubdirReady ==
    sanitize_filename(p_call.source) \in DOMAIN p_call.before \/ p_call.run.writable

\* the failure of the call is the OperationError of the given message format
FailsWith(fmt) ==
    /\ p_call.res.tag = "raise"
    /\ p_call.res.exc = "OperationError"
    /\ p_call.res.emsg.fmt = fmt

\* C14: on an existing source, an output directory that cannot be written to
\* (when the subdirectory is created or when a page is saved) gives the 'no
\* write permission' error, a document that does not open the 'cannot open'
\* error, and a document of zero pages the 'empty PDF' error.
C14_FailureCausesAreTold ==
    (p_call.called /\ p_call.src_exists)
        => /\ (~SubdirReady \/ (~p_call.run.writable /\ p_call.run.open = "ok"
                                  /\ p_call.run.pages >= 1))
                 => FailsWith("no_write_permission")
           /\ (SubdirReady /\ p_call.run.open = "FileDataError") => FailsWith("cannot_open")
           /\ (SubdirReady /\ p_call.run.open = "ok" /\ p_call.run.pages = 0)
                 => FailsWith("empty_pdf")

(***************************************************************************)
(* Claims about images_to_pdf, under SpecImages.                           *)
(***************************************************************************)
\* the images of the input directory of the call, as iterdir() yields them
ImagesOfDir ==
    IF i_call.exists
    THEN SelectSeq(i_call.dir, LAMBDA f : SuffixLower(f.suffix) \in IMAGE_EXTENSIONS)
    ELSE <<>>

\* a and b hold the same files, each as often
SameFiles(a, b) ==
    /\ Len(a) = Len(b)
    /\ \A f \in {a[i] : i \in 1..Len(a)} \cup {b[i] : i \in 1..Len(b)} :
          Cardinality({i \in 1..Len(a) : a[i] = f}) = Cardinality({i \in 1..Len(b) : b[i] = f})

\* pages is the list the call is to work on: the paths given if there are
\* any, else the images of the input directory in natural order
IsResolvedList(pages) ==
    IF i_call.given # <<>> THEN pages = i_call.given
    ELSE /\ SameFiles(pages, ImagesOfDir)
         /\ \A i \in 1..Len(pages), j \in 1..Len(pages) :
               i < j => ~NaturallyBefore(Lowered(pages[j].stem), Lowered(pages[i].stem))

ResolvedListEmpty == i_call.given = <<>> /\ ImagesOfDir = <<>>

ImagesOutputPath == sanitize_filename(i_call.name) \o <<".", "p", "d", "f">>

\* C15: images_to_pdf works on the paths given, or on all images of the
\* input directory in natural order when none are given; it fails with
\* NoFilesError exactly when that list is empty, and then writes nothing;
\* when it succeeds it has written exactly one PDF, whose pages are that
\* list in order, duplicates kept, and files_count is the length of the list.
C15_PagesAreTheResolvedList ==
    i_call.called
        => /\ (i_call.res.tag = "raise" /\ i_call.res.exc = "NoFilesError") <=> ResolvedListEmpty
           /\ ResolvedListEmpty => output_dir = i_call.before
           /\ (i_call.res.tag = "return")
                 => /\ IsResolvedList(i_call.pages)
                    /\ i_call.res.result.success
                    /\ i_call.res.result.files_count = Len(i_call.pages)
                    /\ i_call.res.result.output_path = ImagesOutputPath
                    /\ DOMAIN output_dir = DOMAIN i_call.before \cup {ImagesOutputPath}
                    /\ \A n \in DOMAIN i_call.before \ {ImagesOutputPath} :
                          output_dir[n] = i_call.before[n]

\* 2.png given twice while the input directory holds other images: a PDF
\* of two pages, both 2.png
C15_Witness ==
    /\ i_call.called
    /\ i_call.given = <<Png(<<"2">>), Png(<<"2">>)>>
    /\ ImagesOfDir # <<>>
    /\ i_call.res.tag = "return"
    /\ i_call.pages = <<Png(<<"2">>), Png(<<"2">>)>>
    /\ i_call.res.result.files_count = 2

(***************************************************************************)
(* Claims about the handles of the two conversions.                        *)
(***************************************************************************)
\* C17: when pdf_to_images has returned or raised, the document it opened
\* is closed; when images_to_pdf has returned or raised, no image it
\* converted or copied in memory is left open.
C17_HandlesAreReleased ==
    /\ p_call.called => ~p_call.doc_open
    /\ i_call.called => (i_call.converted_open = 0 /\ i_call.copies_open = 0)

(***************************************************************************)
(* Claims about sanitize_filename, under SpecNames.                        *)
(***************************************************************************)
\* name is one path component below the directory it is joined to: not
\* empty, without a separator, and neither "." nor ".."
DirectChild(name) ==
    /\ name # <<>>
    /\ \A i \in 1..Len(name) : name[i] \notin {"/", "\\"}
    /\ name \notin {<<".">>, <<".", ".">>}

\* C19: what sanitize_filename returns is not empty, holds none of
\* < > : " / \ | ? * and no whitespace, neither begins nor ends with a dot,
\* and is returned unchanged when sanitized again; so the three output
\* names built from it (<name>.pdf, <stem>, <stem>_compressed_<preset>.pdf)
\* are direct children of the output directory.
C19_SanitizedNameIsSafe ==
    (n_safe # NotSanitized)
        => /\ n_safe # <<>>
           /\ \A i \in 1..Len(n_safe) :
                 n_safe[i] \notin {"<", ">", ":", "\"", "/", "\\", "|", "?", "*", " "}
           /\ n_safe[1] # "." /\ n_safe[Len(n_safe)] # "."
           /\ sanitize_filename(n_safe) = n_safe
           /\ DirectChild(generate_output_name(n_name, <<>>, PDF_EXTENSION))
           /\ DirectChild(sanitize_filename(n_name))
           /\ \A preset \in Presets : DirectChild(CompressOutputName(n_name, preset))

\* " .:" has been sanitized: the blank and the dot are stripped and the
\* colon is left as an underscore
C19_Witness ==
    /\ n_name = <<" ", ".", ":">>
    /\ n_safe = <<"_">>

(***************************************************************************)
(* Claims about the prompts of a session, under Spec.  m_read' is the read *)
(* that the step made.                                                     *)
(***************************************************************************)
\* the line as the prompt compares it: without the blanks around it
Typed(read) == py_strip(read.line)

LineReadAt(prompt) == pc = prompt /\ m_read'.prompt = prompt /\ m_read'.got = "line"

MenuChoices == {<<"1">>, <<"2">>, <<"3">>, <<"4">>}

Sentinels == {<<>>, <<"*">>, <<"0">>}

\* what one rejected line leaves as it was: the handler's choices, the
\* files written, the end of the process; and no conversion is called
NothingDone ==
    /\ output_dir' = output_dir
    /\ m_exit' = m_exit
    /\ ~m_read'.invoked

\* C16: a line that is no menu choice, read at the menu, prints the message
\* of the invalid choice and the menu is read again; a selection string that
\* the parser rejects, read at the image selection, prints the parser's
\* message and the selection is read again; neither calls an operation,
\* writes a file or ends the process.  Either loop is left only on a valid
\* entry, on a cancel or exit typed, or on an interrupt of input().
C16_InputErrorsRepeatThePrompt ==
    [][/\ (LineReadAt("menu") /\ Typed(m_read') \notin MenuChoices)
            => /\ pc' = "menu"
               /\ m_last' = Shown("invalid_choice", "none", "none")
               /\ NothingDone
       /\ (LineReadAt("img_select") /\ m_read'.parsed.tag = "error")
            => /\ pc' = "img_select"
               /\ m_ctx' = m_ctx
               /\ m_read'.printed = m_read'.parsed.msg
               /\ m_read'.printed # NoMsg
               /\ NothingDone
       /\ (pc = "menu" /\ pc' # "menu")
            => \/ m_read'.got \in Interrupts
               \/ Typed(m_read') \in MenuChoices
       /\ (pc = "img_select" /\ pc' # "img_select")
            => \/ m_read'.got \in Interrupts
               \/ Typed(m_read') \in Sentinels
               \/ m_read'.parsed.tag = "ok" /\ m_read'.parsed.indices # <<>>
      ]_vars

\* after an invalid menu choice and the choice of images to PDF, a
\* selection that the parser rejected has brought the selection prompt back
C16_Witness ==
    /\ m_last = Shown("invalid_choice", "none", "none")
    /\ m_read.prompt = "img_select"
    /\ m_read.parsed.tag = "error"
    /\ pc = "img_select"
    /\ output_dir = EmptyDir

\* C18: at the image selection an empty line or "*" gives the whole listing
\* in its displayed order and "0" cancels, both without a call of
\* _parse_number_selection; every other line is handed to the parser, and
\* a parsed selection is returned only from its confirmation: a yes returns
\* the selected paths, anything else brings the selection prompt back.
C18_SentinelsBeforeTheParser ==
    [][/\ (LineReadAt("img_select") /\ Typed(m_read') \in {<<>>, <<"*">>})
            => /\ m_read'.parsed = NotCalled
               /\ pc' = "out_name"
               /\ m_ctx'.images = m_ctx.listing
       /\ (LineReadAt("img_select") /\ Typed(m_read') = <<"0">>)
            => /\ m_read'.parsed = NotCalled
               /\ pc' = "menu"
               /\ m_last' = Shown("cancelled", "none", "none")
       /\ (LineReadAt("img_select") /\ Typed(m_read') \notin Sentinels)
            => /\ m_read'.parsed = _parse_number_selection(Typed(m_read'), Len(m_ctx.listing))
               /\ pc' \in {"img_select", "img_confirm"}
       /\ (pc = "img_select" /\ pc' = "img_confirm")
            => /\ m_read'.parsed.tag = "ok"
               /\ m_ctx'.images
                    = [k \in 1..Len(m_read'.parsed.indices) |->
                          m_ctx.listing[m_read'.parsed.indices[k] + 1]]
       /\ LineReadAt("img_confirm")
            => IF py_lower(Typed(m_read')) \in {<<>>, <<"y">>, <<"y", "e", "s">>}
               THEN pc' = "out_name" /\ m_ctx'.images = m_ctx.images
               ELSE pc' = "img_select"
      ]_vars

\* "2 1" was typed at the selection and confirmed: the second image and
\* then the first go on to the output name
C18_Witness ==
    /\ pc = "out_name"
    /\ m_read.prompt = "img_confirm"
    /\ m_read.got = "line"
    /\ Len(m_ctx.listing) = 2
    /\ m_ctx.images = <<m_ctx.listing[2], m_ctx.listing[1]>>

====
